---- MODULE Spec2Model ----
(***************************************************************************)
(* A model of trytond/ir/translation.py: the translation store, the        *)
(* process-wide translation cache, the cached read path (get_sources,      *)
(* get_ids, set_ids), the record API (create, write, delete), the Update   *)
(* and Clean wizards, the catalog import and export, and the report and    *)
(* view scans.                                                             *)
(*                                                                         *)
(* Specifications                                                          *)
(*   Spec        one request context, one request per get_sources call     *)
(*   SpecBatch   one request context, get_sources calls of several requests*)
(*   SpecUpdate  the sequential operations and the Update wizard           *)
(*   SpecConc    two request contexts that commit each statement           *)
(*   SpecTxn     two request contexts with transactions                    *)
(*   SpecImport  a catalog imported twice                                  *)
(*   SpecExport  imports of a catalog and exports, in any order            *)
(*   SpecScan    report and view scans of one definition                   *)
(*   SpecClean   the Clean wizard, run and run again                       *)
(*   SpecSync    the Update wizard alone, on several stores                *)
(*   SpecApply   set_ids calls                                             *)
(*                                                                         *)
(* Conventions                                                             *)
(*   - a translation name "model,field" is the sequence of its             *)
(*     comma-separated parts, so name.split(',') is the name itself;       *)
(*   - Null is SQL NULL / Python None for text columns;                    *)
(*   - a row is a record with the columns of ir.translation.               *)
(***************************************************************************)
EXTENDS Integers, Sequences, FiniteSets, TLC

VARIABLES
    store,      \* the committed rows of ir.translation (a set of row records)
    nextId,     \* the next value of the table's id sequence
    cache,      \* Translation._translation_cache: [src |-> map, ids |-> map]
    langCache,  \* Translation._get_language_cache: [set, val]
    hist,       \* the operations completed so far, oldest first (summaries)
    txn,        \* per request context: the open transaction, or its absence
    pend,       \* per request context: the handler step in flight
    imp         \* the catalog of the import and export specifications

vars == <<store, nextId, cache, langCache, hist, txn, pend, imp>>

----------------------------------------------------------------------------
(* Bounds of the model *)

MaxOps == 3         \* operations per behaviour of the sequential specifications
MaxBatch == 2       \* requests per get_sources call
IN_MAX == 7         \* the store's maximum parameter count (scaled down)

----------------------------------------------------------------------------
(* Values and small helpers *)

Null == "<null>"

Range(s) == {s[i] : i \in DOMAIN s}

EmptyMap == [k \in {} |-> Null]

\* dict.update: the entries of g over those of f
Override(f, g) ==
    [k \in (DOMAIN f) \cup (DOMAIN g) |-> IF k \in DOMAIN g THEN g[k] ELSE f[k]]

\* tools.grouped_slice(seq, count): the successive slices of at most count
RECURSIVE grouped_slice(_, _)
grouped_slice(seq, count) ==
    IF Len(seq) = 0 THEN <<>>
    ELSE IF Len(seq) <= count THEN <<seq>>
    ELSE <<SubSeq(seq, 1, count)>>
         \o grouped_slice(SubSeq(seq, count + 1, Len(seq)), count)

\* tools.get_parent_language: regional variant -> base language, else none
get_parent(lang) == IF lang = "fr_CA" THEN "fr" ELSE Null

\* hashlib.md5((src or '').encode('utf-8')).hexdigest(): collision-free digest
get_src_md5(src) == <<"md5", IF src = Null THEN "" ELSE src>>

SourceTypes == {"report", "view", "wizard_button", "selection", "error"}
ResourceTypes == {"field", "model", "help"}

----------------------------------------------------------------------------
(* The store *)

Row(id, name, res_id, lang, type, src, value, module, fuzzy) ==
    [id |-> id, name |-> name, res_id |-> res_id, lang |-> lang, type |-> type,
     src |-> src, src_md5 |-> get_src_md5(src), value |-> value,
     module |-> module, fuzzy |-> fuzzy, overriding_module |-> Null]

\* Unique(t, t.name, t.res_id, t.lang, t.type, t.src_md5, t.module); SQL NULLs
\* never collide
UniqueKey(r) == <<r.name, r.res_id, r.lang, r.type, r.src_md5, r.module>>

translation_md5_uniq(st) ==
    \A r1, r2 \in st :
        (r1.id # r2.id /\ r1.module # Null /\ r1.lang # Null)
            => UniqueKey(r1) # UniqueKey(r2)

----------------------------------------------------------------------------
(* The cache: Cache.get / Cache.set / Cache.clear of _translation_cache.   *)
(* Keys of get_sources are (name, ttype, lang, source); keys of get_ids    *)
(* are (name, ttype, lang, obj_id); the two families are kept apart.       *)

EmptyCache == [src |-> EmptyMap, ids |-> EmptyMap]

cache_clear(c) == EmptyCache

----------------------------------------------------------------------------
(* get_sources: the cached, batched, fallback-aware read of definition-    *)
(* level translations.  A request is <<name, ttype, lang, source>>.  The   *)
(* operator yields every outcome [res, cache] the call can have: the       *)
(* store returns the rows of a query in an order of its choosing.          *)

\* the where clause without its fuzzy filter
SourceClause_anyfuzzy(row, req) ==
    /\ row.lang = req[3]
    /\ row.type = req[2]
    /\ row.name = req[1]
    /\ row.value # ""
    /\ row.value # Null
    /\ row.res_id = -1
    /\ (req[4] # Null => row.src = req[4])

\* the where clause built for one cache miss
SourceClause(row, req) ==
    /\ row.lang = req[3]
    /\ row.type = req[2]
    /\ row.name = req[1]
    /\ row.value # ""
    /\ row.value # Null
    /\ row.fuzzy = FALSE
    /\ row.res_id = -1
    /\ (req[4] # Null => row.src = req[4])

\* the key a fetched row is filed under: its own source when that tuple was
\* asked for, the null source otherwise
ResKey(row, args) ==
    IF <<row.name, row.type, row.lang, row.src>> \in Range(args)
    THEN <<row.name, row.type, row.lang, row.src>>
    ELSE <<row.name, row.type, row.lang, Null>>

\* for ... in cursor.fetchall(): res[key] = value; the last row of a key wins
FetchInto(res, rows, args) ==
    LET keys == {ResKey(r, args) : r \in rows}
        vals(k) == {r.value : r \in {x \in rows : ResKey(x, args) = k}}
        picks == {g \in [keys -> {r.value : r \in rows}] :
                     \A k \in keys : g[k] \in vals(k)}
    IN  {Override(res, g) : g \in picks}

RECURSIVE SourcesQueries(_, _, _, _)
SourcesQueries(resSet, chunks, st, args) ==
    IF chunks = <<>> THEN resSet
    ELSE LET sub_clause == chunks[1]
             rows == {r \in st : \E i \in DOMAIN sub_clause :
                                    SourceClause(r, sub_clause[i])}
         IN  SourcesQueries(UNION {FetchInto(res, rows, args) : res \in resSet},
                            Tail(chunks), st, args)

RECURSIVE get_sources(_, _, _)
RECURSIVE SlicedSources(_, _, _)

\* len(args) > IN_MAX: one call per slice, the results merged
SlicedSources(outs, slices, st) ==
    IF slices = <<>> THEN outs
    ELSE SlicedSources(
            UNION {{[res |-> Override(o.res, p.res), cache |-> p.cache] :
                        p \in get_sources(o.cache, st, slices[1])} : o \in outs},
            Tail(slices), st)

\* lines 636-683: the cache lookups, the call for the parent languages and
\* the queries; every outcome [res, cache, update_cache] before the cache is
\* filled
sources_resolve(c, st, args) ==
    LET Miss(r) == r \notin DOMAIN c.src
        MissWithParent(r) == Miss(r) /\ get_parent(r[3]) # Null
        ParentOf(r) == <<r[1], r[2], get_parent(r[3]), r[4]>>
        update_cache == \E i \in DOMAIN args : Miss(args[i])
        res0 == [k \in Range(args) |-> IF Miss(k) THEN Null ELSE c.src[k]]
        withParent == SelectSeq(args, MissWithParent)
        parent_args == [i \in DOMAIN withParent |-> ParentOf(withParent[i])]
        clause == SelectSeq(args, Miss)
        parentOuts == IF withParent = <<>>
                      THEN {[res |-> EmptyMap, cache |-> c]}
                      ELSE get_sources(c, st, parent_args)
        res1(p) == [k \in Range(args) |->
                       IF MissWithParent(k) THEN p.res[ParentOf(k)] ELSE res0[k]]
        in_max == IN_MAX \div 7
    IN  UNION {
          {[res |-> res, cache |-> p.cache, update_cache |-> update_cache] :
              res \in SourcesQueries({res1(p)}, grouped_slice(clause, in_max),
                                     st, args)} :
          p \in parentOuts}

\* lines 684-687: if update_cache, every key of res is set in the cache
sources_fill(c, res, update_cache) ==
    IF update_cache THEN [c EXCEPT !.src = Override(@, res)] ELSE c

get_sources(c, st, args) ==
    IF Len(args) > IN_MAX
    THEN SlicedSources({[res |-> EmptyMap, cache |-> c]},
                       grouped_slice(args, IN_MAX), st)
    ELSE {[res |-> o.res,
           cache |-> sources_fill(o.cache, o.res, o.update_cache)] :
             o \in sources_resolve(c, st, args)}

\* get_source(name, ttype, lang, source=None)
get_source(c, st, name, ttype, lang, source) ==
    {[res |-> o.res[<<name, ttype, lang, source>>], cache |-> o.cache] :
        o \in get_sources(c, st, <<(<<name, ttype, lang, source>>)>>)}

----------------------------------------------------------------------------
(* get_ids: the record-level read.  fz is the fuzzy_translation flag of    *)
(* the transaction context.                                                *)

\* the records ModelFields.browse(ids) / Model.browse(ids) give
FieldRecord(id) == [model |-> "m", name |-> IF id = 1 THEN "f" ELSE "g"]
ModelRecord(id) == [model |-> "m"]

IdClause(row, name, ttype, lang, sub_to_fetch, fz) ==
    /\ row.lang = lang
    /\ row.type = ttype
    /\ row.name = name
    /\ row.value # ""
    /\ row.value # Null
    /\ row.res_id \in Range(sub_to_fetch)
    /\ (~fz => row.fuzzy = FALSE)

\* translations.update(cursor): the last row of a res_id wins
FetchIds(tr, rows) ==
    LET keys == {r.res_id : r \in rows}
        vals(k) == {r.value : r \in {x \in rows : x.res_id = k}}
        picks == {g \in [keys -> {r.value : r \in rows}] :
                     \A k \in keys : g[k] \in vals(k)}
    IN  {Override(tr, g) : g \in picks}

RECURSIVE IdsQueries(_, _, _, _, _, _, _)
IdsQueries(trSet, chunks, st, name, ttype, lang, fz) ==
    IF chunks = <<>> THEN trSet
    ELSE LET rows == {r \in st : IdClause(r, name, ttype, lang, chunks[1], fz)}
         IN  IdsQueries(UNION {FetchIds(tr, rows) : tr \in trSet},
                        Tail(chunks), st, name, ttype, lang, fz)

\* translations[record.id] = cls.get_source(name, ttype, lang), per record
RECURSIVE ModelIdsLoop(_, _, _, _, _, _)
ModelIdsLoop(outs, ids, names, st, ttype, lang) ==
    IF ids = <<>> THEN outs
    ELSE ModelIdsLoop(
            UNION {{[res |-> Override(o.res, (ids[1] :> g.res)), cache |-> g.cache] :
                        g \in get_source(o.cache, st, names[1], ttype, lang, Null)} :
                   o \in outs},
            Tail(ids), Tail(names), st, ttype, lang)

\* names of ir.model.field and ir.model: resolved through get_sources
get_ids_model(c, st, name, lang, ids) ==
    LET field_name == name[2]
        ttype == IF name[1] = "ir.model.field"
                 THEN (IF field_name = "field_description" THEN "field" ELSE "help")
                 ELSE "model"
        RecName(id) == IF ttype \in {"field", "help"}
                       THEN <<FieldRecord(id).model, FieldRecord(id).name>>
                       ELSE <<ModelRecord(id).model, field_name>>
        trans_args == [i \in DOMAIN ids |-> <<RecName(ids[i]), ttype, lang, Null>>]
    IN  ModelIdsLoop({[res |-> EmptyMap, cache |-> o.cache] :
                          o \in get_sources(c, st, trans_args)},
                     ids, [i \in DOMAIN ids |-> RecName(ids[i])], st, ttype, lang)

\* a get_ids that reads and fills the cache in every mode
IdsUseCache_always(fz) == TRUE

\* not Transaction().context.get('fuzzy_translation', False): whether the
\* call reads and fills the cache

IdsUseCache(fz) == ~fz

RECURSIVE get_ids(_, _, _, _, _, _, _)
get_ids(c, st, name, ttype, lang, ids, fz) ==
    IF name[1] \in {"ir.model.field", "ir.model"}
    THEN get_ids_model(c, st, name, lang, ids)
    ELSE
    LET Key(i) == <<name, ttype, lang, i>>
        Cached(i) == IdsUseCache(fz) /\ Key(i) \in DOMAIN c.ids
        NotCached(i) == ~Cached(i)
        tr0 == [i \in {j \in Range(ids) : Cached(j)} |-> c.ids[Key(i)]]
        to_fetch == SelectSeq(ids, NotCached)
        parent_lang == get_parent(lang)
        parentOuts == IF to_fetch # <<>> /\ parent_lang # Null
                      THEN get_ids(c, st, name, ttype, parent_lang, to_fetch, fz)
                      ELSE {[res |-> EmptyMap, cache |-> c]}
        in_max == IN_MAX \div 7
        Final(tr) == [i \in (DOMAIN tr) \cup Range(ids) |->
                         IF i \in DOMAIN tr THEN tr[i] ELSE Null]
        Entries(tr) == [k \in {Key(i) : i \in Range(ids)} |-> Final(tr)[k[4]]]
    IN  UNION {
          {[res |-> Final(tr),
            cache |-> IF IdsUseCache(fz)
                      THEN [p.cache EXCEPT !.ids = Override(@, Entries(tr))]
                      ELSE p.cache] :
              tr \in IdsQueries({Override(tr0, p.res)},
                                grouped_slice(to_fetch, in_max),
                                st, name, ttype, lang, fz)} :
          p \in parentOuts}

----------------------------------------------------------------------------
(* The record API: create, write, delete.  Each clears the translation     *)
(* cache first and then changes the table.  values / vals are dicts: maps  *)
(* from column names to values.                                            *)

Get(vals, f) == IF f \in DOMAIN vals THEN vals[f] ELSE Null
Falsy(v) == v = Null \/ v = ""

\* create(): a row given without module takes the module of the context, or
\* the module (and, for the resource kinds, the source) of an 'en' row found
\* by cursor.fetchone()
CreateDefaults(st, vals, ctxModule) ==
    IF ~Falsy(Get(vals, "module")) THEN {vals}
    ELSE IF ctxModule # Null THEN {Override(vals, [module |-> ctxModule])}
    ELSE LET en == {r \in st :
                      /\ r.name = vals.name
                      /\ "res_id" \in DOMAIN vals
                      /\ r.res_id = vals.res_id
                      /\ r.lang = "en"
                      /\ r.type = vals.type}
         IN  IF vals.type \in SourceTypes
             THEN LET found == {r \in en : r.src = Get(vals, "src")}
                  IN  IF found = {} THEN {vals}
                      ELSE {Override(vals, [module |-> r.module]) : r \in found}
             ELSE IF en = {} THEN {vals}
                  ELSE {Override(vals, [module |-> r.module, src |-> r.src]) :
                            r \in en}

\* the inserted row: vals['src_md5'] = get_src_md5(vals.get('src')), then the
\* column defaults (default_res_id, default_fuzzy)
NewRow(id, vals) ==
    [id |-> id,
     name |-> vals.name,
     res_id |-> IF "res_id" \in DOMAIN vals THEN vals.res_id ELSE -1,
     lang |-> Get(vals, "lang"),
     type |-> vals.type,
     src |-> Get(vals, "src"),
     src_md5 |-> get_src_md5(Get(vals, "src")),
     value |-> Get(vals, "value"),
     module |-> Get(vals, "module"),
     fuzzy |-> IF "fuzzy" \in DOMAIN vals THEN vals.fuzzy ELSE FALSE,
     overriding_module |-> Get(vals, "overriding_module")]

\* every way to complete each vals of vlist
RECURSIVE CompletedLists(_, _, _)
CompletedLists(st, vlist, ctxModule) ==
    IF vlist = <<>> THEN {<<>>}
    ELSE {<<v>> \o rest : v \in CreateDefaults(st, vlist[1], ctxModule),
                          rest \in CompletedLists(st, Tail(vlist), ctxModule)}

\* super().create(vlist): the rows inserted under the unique constraint;
\* every outcome [store, nextId, ok]
create_rows(st, nid, vlist, ctxModule) ==
    {LET new == {NewRow(nid + i - 1, done[i]) : i \in DOMAIN done}
         ok == translation_md5_uniq(st \cup new)
     IN  [store |-> IF ok THEN st \cup new ELSE st,
          nextId |-> IF ok THEN nid + Len(done) ELSE nid,
          ok |-> ok] :
        done \in CompletedLists(st, vlist, ctxModule)}

\* create, write and delete without their cache clear
create_noclear(c, st, nid, vlist, ctxModule) ==
    {[store |-> o.store, nextId |-> o.nextId, cache |-> c, ok |-> o.ok] :
        o \in create_rows(st, nid, vlist, ctxModule)}

create(c, st, nid, vlist, ctxModule) ==
    {[store |-> o.store, nextId |-> o.nextId, cache |-> cache_clear(c),
      ok |-> o.ok] :
        o \in create_rows(st, nid, vlist, ctxModule)}

Upd(r, values, f) == IF f \in DOMAIN values THEN values[f] ELSE r[f]

WriteRow(r, values) ==
    [id |-> r.id,
     name |-> Upd(r, values, "name"),
     res_id |-> Upd(r, values, "res_id"),
     lang |-> Upd(r, values, "lang"),
     type |-> Upd(r, values, "type"),
     src |-> Upd(r, values, "src"),
     src_md5 |-> IF "src" \in DOMAIN values THEN get_src_md5(values.src)
                 ELSE r.src_md5,
     value |-> Upd(r, values, "value"),
     module |-> Upd(r, values, "module"),
     fuzzy |-> Upd(r, values, "fuzzy"),
     overriding_module |-> Upd(r, values, "overriding_module")]

\* super().write(translations, values) under the unique constraint
write_rows(st, ids, values) ==
    LET new == {IF r.id \in ids THEN WriteRow(r, values) ELSE r : r \in st}
        ok == translation_md5_uniq(new)
    IN  [store |-> IF ok THEN new ELSE st, ok |-> ok]

write_noclear(c, st, ids, values) ==
    LET o == write_rows(st, ids, values)
    IN  [store |-> o.store, cache |-> c, ok |-> o.ok]

write(c, st, ids, values) ==
    LET o == write_rows(st, ids, values)
    IN  [store |-> o.store, cache |-> cache_clear(c), ok |-> o.ok]

\* super().delete(translations)
delete_rows(st, ids) == [store |-> {r \in st : r.id \notin ids}, ok |-> TRUE]

delete_noclear(c, st, ids) ==
    [store |-> delete_rows(st, ids).store, cache |-> c, ok |-> TRUE]

delete(c, st, ids) ==
    [store |-> delete_rows(st, ids).store, cache |-> cache_clear(c),
     ok |-> TRUE]

\* get_language(): the cached list, else Lang.search([]) and cache it
Languages == <<"en", "fr", "fr_CA">>

NoLanguages == [set |-> FALSE, val |-> <<>>]

get_language(lc) ==
    IF lc.set THEN [res |-> lc.val, langCache |-> lc]
    ELSE [res |-> Languages, langCache |-> [set |-> TRUE, val |-> Languages]]

----------------------------------------------------------------------------
(* The sequential specification: one request context whose operations run  *)
(* to completion one after the other.                                      *)

N == <<"m", "f">>

SeedRows ==
    {Row(1, N, -1, "fr", "field", "a", "x", "modA", FALSE),
     Row(2, N, -1, "fr_CA", "field", "a", "y", "modA", TRUE),
     Row(3, N, 1, "fr", "model", "a", "x", "modA", FALSE),
     Row(4, N, 1, "fr_CA", "model", "a", "y", "modA", TRUE)}

Requests ==
    {<<N, "field", "fr", Null>>, <<N, "field", "fr", "a">>,
     <<N, "field", "fr_CA", Null>>}

Batches == UNION {[1..n -> Requests] : n \in 1..MaxBatch}

IdCalls ==
    {<<name, "model", l, ids>> :
        name \in {N, <<"ir.model.field", "field_description">>},
        l \in {"fr", "fr_CA"},
        ids \in {<<1, 2>>}}

WriteVals == {[value |-> "y"], [fuzzy |-> FALSE]}

CreateVals ==
    {[name |-> N, res_id |-> -1, lang |-> "fr", type |-> "field", src |-> "b",
      value |-> "y", module |-> "modA"],
     [name |-> N, res_id |-> -1, lang |-> "fr_CA", type |-> "field",
      value |-> "x"]}

Idle == [c \in {} |-> Null]

Op(op, fz, args, res, ok) ==
    [op |-> op, fz |-> fz, args |-> args, res |-> res, ok |-> ok]

Init ==
    /\ store = SeedRows
    /\ nextId = 5
    /\ cache = EmptyCache
    /\ langCache = NoLanguages
    /\ hist = <<>>
    /\ txn = Idle
    /\ pend = Idle
    /\ imp = Null

GetSources(args, fz) ==
    /\ Len(hist) < MaxOps
    /\ \E o \in get_sources(cache, store, args) :
          /\ cache' = o.cache
          /\ hist' = Append(hist, Op("get_sources", fz, args, o.res, TRUE))
    /\ UNCHANGED <<store, nextId, langCache, txn, pend, imp>>

GetIds(call, fz) ==
    /\ Len(hist) < MaxOps
    /\ \E o \in get_ids(cache, store, call[1], call[2], call[3], call[4], fz) :
          /\ cache' = o.cache
          /\ hist' = Append(hist, Op("get_ids", fz, call, o.res, TRUE))
    /\ UNCHANGED <<store, nextId, langCache, txn, pend, imp>>

Create(vals) ==
    /\ Len(hist) < MaxOps
    /\ \E o \in create(cache, store, nextId, <<vals>>, Null) :
          /\ store' = o.store
          /\ nextId' = o.nextId
          /\ cache' = o.cache
          /\ hist' = Append(hist, Op("create", FALSE, <<vals>>, EmptyMap, o.ok))
    /\ UNCHANGED <<langCache, txn, pend, imp>>

Write(r, values) ==
    /\ Len(hist) < MaxOps
    /\ r \in store
    /\ LET o == write(cache, store, {r.id}, values)
       IN  /\ store' = o.store
           /\ cache' = o.cache
           /\ hist' = Append(hist, Op("write", FALSE, <<r.id, values>>, EmptyMap, o.ok))
    /\ UNCHANGED <<nextId, langCache, txn, pend, imp>>

Delete(r) ==
    /\ Len(hist) < MaxOps
    /\ r \in store
    /\ LET o == delete(cache, store, {r.id})
       IN  /\ store' = o.store
           /\ cache' = o.cache
           /\ hist' = Append(hist, Op("delete", FALSE, <<r.id>>, EmptyMap, o.ok))
    /\ UNCHANGED <<nextId, langCache, txn, pend, imp>>

GetLanguage ==
    /\ Len(hist) < MaxOps
    /\ LET o == get_language(langCache)
       IN  /\ langCache' = o.langCache
           /\ hist' = Append(hist, Op("get_language", FALSE, <<>>, o.res, TRUE))
    /\ UNCHANGED <<store, nextId, cache, txn, pend, imp>>

Next ==
    \/ \E r \in Requests, fz \in BOOLEAN : GetSources(<<r>>, fz)
    \/ \E call \in IdCalls, fz \in BOOLEAN : GetIds(call, fz)
    \/ \E vals \in CreateVals : Create(vals)
    \/ \E r \in store, values \in WriteVals : Write(r, values)
    \/ \E r \in store : Delete(r)
    \/ GetLanguage

Spec == Init /\ [][Next]_vars

\* the batch specification: get_sources calls of several requests, between
\* writes and deletes
NextBatch ==
    \/ \E args \in Batches, fz \in BOOLEAN : GetSources(args, fz)
    \/ \E r \in store, values \in WriteVals : Write(r, values)
    \/ \E r \in store : Delete(r)

SpecBatch == Init /\ [][NextBatch]_vars

----------------------------------------------------------------------------
(* Reference definitions the claims are stated with: what a request        *)
(* resolves to, read off the store alone.                                  *)

Last(h) == h[Len(h)]

Mutations == {"create", "write", "delete"}

\* the step appends one operation of kind op to the history
Did(op) == Len(hist') = Len(hist) + 1 /\ Last(hist').op = op

\* rows that answer a definition-level request in its own language
SourceHits(st, r) ==
    {row \in st :
        /\ row.name = r[1] /\ row.type = r[2] /\ row.lang = r[3]
        /\ row.res_id = -1 /\ ~row.fuzzy /\ row.value \notin {"", Null}
        /\ (r[4] # Null => row.src = r[4])}

\* the values a request may resolve to along its fallback chain
RECURSIVE Resolves(_, _)
Resolves(st, r) ==
    IF SourceHits(st, r) # {} THEN {row.value : row \in SourceHits(st, r)}
    ELSE IF get_parent(r[3]) # Null
         THEN Resolves(st, <<r[1], r[2], get_parent(r[3]), r[4]>>)
         ELSE {Null}

\* rows that answer a record-level request in its own language
IdHits(st, name, ttype, lang, id, fz) ==
    {row \in st :
        /\ row.name = name /\ row.type = ttype /\ row.lang = lang
        /\ row.res_id = id /\ row.value \notin {"", Null}
        /\ (fz \/ ~row.fuzzy)}

RECURSIVE ResolvesId(_, _, _, _, _, _)
ResolvesId(st, name, ttype, lang, id, fz) ==
    IF IdHits(st, name, ttype, lang, id, fz) # {}
    THEN {row.value : row \in IdHits(st, name, ttype, lang, id, fz)}
    ELSE IF get_parent(lang) # Null
         THEN ResolvesId(st, name, ttype, get_parent(lang), id, fz)
         ELSE {Null}

\* the languages of the fallback chain of lang, lang included
RECURSIVE Chain(_)
Chain(lang) == IF lang = Null THEN {} ELSE {lang} \cup Chain(get_parent(lang))

----------------------------------------------------------------------------
(* Claims on the sequential specification                                  *)

\* C1: with an empty cache, get_sources returns for each request the value of
\* a non-fuzzy, non-empty, definition-level row of the request's language
\* matching name and kind (and source when given), else what the parent
\* language resolves to, else null.
C1_ResolveManyContract ==
    [][(cache = EmptyCache /\ Did("get_sources")) =>
          \A r \in Range(Last(hist').args) :
              Last(hist').res[r] \in Resolves(store, r)]_vars

\* C2: a get_sources call that directly follows a create, write or delete
\* returns what resolution against the current store gives: for a call of one
\* request a value its fallback chain holds now, and for any call a result
\* the same call has on an empty cache.
C2_FreshAfterMutation ==
    (Len(hist) >= 2 /\ Last(hist).op = "get_sources"
        /\ hist[Len(hist) - 1].op \in Mutations) =>
        LET args == Last(hist).args
            res == Last(hist).res
        IN  /\ Len(args) = 1 => res[args[1]] \in Resolves(store, args[1])
            /\ res \in {o.res : o \in get_sources(EmptyCache, store, args)}

\* C2 witness: a request resolved, the row it resolves to rewritten, the same
\* request resolved again with the new value
C2_Witness ==
    /\ Len(hist) = 3
    /\ hist[1].op = "get_sources" /\ hist[2].op = "write" /\ hist[2].ok
    /\ hist[3].op = "get_sources"
    /\ hist[1].args = hist[3].args /\ Len(hist[1].args) = 1
    /\ hist[1].res[hist[1].args[1]] = "x"
    /\ hist[3].res[hist[3].args[1]] = "y"

\* C6 as stated: every create, write and delete empties the translation
\* cache and the available-languages cache.
C6_BothCachesEmptied ==
    (hist # <<>> /\ Last(hist).op \in Mutations) =>
        (cache = EmptyCache /\ langCache = NoLanguages)

\* C6 amended: every create, write and delete empties the translation cache
\* and leaves the available-languages cache as it was.
C6_TranslationCacheEmptied ==
    [][(Did("create") \/ Did("write") \/ Did("delete")) =>
          (cache' = EmptyCache /\ langCache' = langCache)]_vars

\* C6 witness: both caches filled, then a row written
C6_Witness ==
    /\ Len(hist) = 3
    /\ hist[1].op = "get_language" /\ hist[2].op = "get_sources"
    /\ hist[3].op = "write" /\ hist[3].ok
    /\ cache = EmptyCache /\ langCache.set

GenericName(name) == name[1] \notin {"ir.model.field", "ir.model"}

\* the rows a get_ids call of this name reads for record id
IdRows(st, call, id) ==
    IF GenericName(call[1])
    THEN {row \in st : row.name = call[1] /\ row.type = call[2]
                          /\ row.res_id = id /\ row.lang \in Chain(call[3])}
    ELSE {row \in st : row.name = <<FieldRecord(id).model, FieldRecord(id).name>>
                          /\ row.type = "field" /\ row.res_id = -1
                          /\ row.lang \in Chain(call[3])}

NeverFuzzyOnly(st, call, res) ==
    \A id \in Range(call[4]) :
        res[id] # Null =>
            \E row \in IdRows(st, call, id) : ~row.fuzzy /\ row.value = res[id]

\* C7 as stated: get_ids in fuzzy-allowed mode returns the values of fuzzy
\* rows too, reads no cache entry and adds none; a later call outside that
\* mode never returns a value only a fuzzy row holds.
C7_FuzzyIdsBypassCache ==
    [][Did("get_ids") =>
          LET e == Last(hist')
              call == e.args
          IN  /\ e.fz =>
                    /\ cache' = cache
                    /\ \A id \in Range(call[4]) :
                          e.res[id] \in ResolvesId(store, call[1],
                              IF GenericName(call[1]) THEN call[2] ELSE "field",
                              call[3],
                              IF GenericName(call[1]) THEN id ELSE -1, TRUE)
              /\ ~e.fz => NeverFuzzyOnly(store, call, e.res)]_vars

\* C7 amended: for a name of an entity other than ir.model and
\* ir.model.field, get_ids in fuzzy-allowed mode returns the values of fuzzy
\* rows too, reads no cache entry and adds none; for every name, a call
\* outside that mode never returns a value only a fuzzy row holds.
C7_FuzzyIdsBypassCacheGeneric ==
    [][Did("get_ids") =>
          LET e == Last(hist')
              call == e.args
          IN  /\ (e.fz /\ GenericName(call[1])) =>
                    /\ cache' = cache
                    /\ \A id \in Range(call[4]) :
                          e.res[id] \in ResolvesId(store, call[1], call[2],
                                                   call[3], id, TRUE)
              /\ ~e.fz => NeverFuzzyOnly(store, call, e.res)]_vars

\* C7 witness: a fuzzy-mode call returned the value of a fuzzy row, and the
\* same call outside fuzzy mode then returned the parent language's value
C7_Witness ==
    /\ Len(hist) >= 2
    /\ hist[1].op = "get_ids" /\ hist[1].fz /\ GenericName(hist[1].args[1])
    /\ hist[2].op = "get_ids" /\ ~hist[2].fz /\ hist[2].args = hist[1].args
    /\ hist[1].res[1] = "y" /\ hist[2].res[1] = "x"
    /\ \E row \in store : row.fuzzy /\ row.value = "y" /\ row.res_id = 1

\* the entries a step added to the get_sources side of the cache
AddedSrc == {k \in DOMAIN cache'.src : k \notin DOMAIN cache.src}

\* C8 as stated: in fuzzy-allowed mode get_sources adds no cache entry.
C8_FuzzySourcesAddNothing ==
    [][(Did("get_sources") /\ Last(hist').fz) => AddedSrc = {}]_vars

\* C8 amended: in fuzzy-allowed mode get_sources caches every request it
\* had to resolve, as outside that mode, and each entry it adds is null or
\* the value of a non-fuzzy definition-level row of the key's fallback
\* chain: never a value only a fuzzy row holds.
C8_FuzzySourcesCacheNonFuzzy ==
    [][(Did("get_sources") /\ Last(hist').fz) =>
          /\ Range(Last(hist').args) \subseteq DOMAIN cache'.src
          /\ \A k \in AddedSrc :
                cache'.src[k] # Null =>
                    \E row \in store :
                        /\ row.name = k[1] /\ row.type = k[2]
                        /\ row.lang \in Chain(k[3])
                        /\ ~row.fuzzy /\ row.value = cache'.src[k]]_vars

\* C8 witness: a fuzzy-mode get_sources call has filled the cache
C8_Witness ==
    /\ Len(hist) = 1 /\ hist[1].op = "get_sources" /\ hist[1].fz
    /\ \E k \in DOMAIN cache.src : cache.src[k] = "x"

----------------------------------------------------------------------------
(* TranslationUpdate.do_update: bring the rows of a target language in     *)
(* line with the reference language 'en'.  Apart from its two calls of     *)
(* Translation.create, every change is a direct SQL UPDATE.                *)

_source_types == {"report", "view", "wizard_button", "selection", "error"}
_ressource_types == {"field", "model", "help"}
_updatable_types == {"field", "model", "selection", "help"}

\* the selected columns of a row
Cols5(r) == [name |-> r.name, res_id |-> r.res_id, type |-> r.type,
             src |-> r.src, module |-> r.module]
Cols4(r) == [name |-> r.name, res_id |-> r.res_id, type |-> r.type,
             module |-> r.module]
Cols5v(r) == [name |-> r.name, res_id |-> r.res_id, type |-> r.type,
              src |-> r.src, module |-> r.module, value |-> r.value]
Cols4v(r) == [name |-> r.name, res_id |-> r.res_id, type |-> r.type,
              module |-> r.module, value |-> r.value]

\* every order a cursor may give the rows of a result in
RECURSIVE Orders(_)
Orders(S) ==
    IF S = {} THEN {<<>>}
    ELSE UNION {{<<x>> \o t : t \in Orders(S \ {x})} : x \in S}

\* the order of values under Max(): text comparison
ValueRank(v) == IF v = "x" THEN 1 ELSE IF v = "y" THEN 2 ELSE 0
MaxValue(S) == CHOOSE v \in S : \A w \in S : ValueRank(w) <= ValueRank(v)

UpdateCreate_none(o, lang, types, wsrc) == {o}

\* lines 1536-1553 and 1577-1593: the rows of 'en' without counterpart in
\* lang are created; wsrc tells whether src is a selected column
UpdateCreate(o, lang, types, wsrc) ==
    LET st == o.store
        en == {r \in st : r.lang = "en" /\ r.type \in types}
        tg == {r \in st : r.lang = lang /\ r.type \in types}
        diff == IF wsrc THEN {Cols5(r) : r \in en} \ {Cols5(r) : r \in tg}
                ELSE {Cols4(r) : r \in en} \ {Cols4(r) : r \in tg}
        Vals(row) == IF wsrc
                     THEN [name |-> row.name, res_id |-> row.res_id,
                           lang |-> lang, type |-> row.type, src |-> row.src,
                           module |-> row.module]
                     ELSE [name |-> row.name, res_id |-> row.res_id,
                           lang |-> lang, type |-> row.type,
                           module |-> row.module]
    IN  IF ~o.ok \/ diff = {} THEN {o}
        ELSE UNION {create(o.cache, st, o.nextId,
                           [i \in DOMAIN ord |-> Vals(ord[i])], Null) :
                        ord \in Orders(diff)}

\* a drop that empties every row of the target language of the kinds,
\* whatever the parent language holds
UpdateDropParentCopies_all(o, lang, types, wsrc) ==
    IF ~o.ok \/ get_parent(lang) = Null THEN o
    ELSE [o EXCEPT !.store =
             {IF r.lang = lang /\ r.type \in types
              THEN [r EXCEPT !.value = ""] ELSE r : r \in o.store}]

\* lines 1555-1572 and 1595-1611: a row of lang that repeats the value of
\* its parent-language counterpart has its value emptied
UpdateDropParentCopies(o, lang, types, wsrc) ==
    LET st == o.store
        parent_lang == get_parent(lang)
        pa == {r \in st : r.lang = parent_lang /\ r.type \in types}
        tg == {r \in st : r.lang = lang /\ r.type \in types}
        both == IF wsrc THEN {Cols5v(r) : r \in pa} \cap {Cols5v(r) : r \in tg}
                ELSE {Cols4v(r) : r \in pa} \cap {Cols4v(r) : r \in tg}
        Hit(r) == /\ r.lang = lang
                  /\ \E row \in both :
                        /\ r.name = row.name /\ r.res_id = row.res_id
                        /\ r.type = row.type /\ r.module = row.module
                        /\ (wsrc => r.src = row.src)
    IN  IF ~o.ok \/ parent_lang = Null THEN o
        ELSE [o EXCEPT !.store =
                 {IF Hit(r) THEN [r EXCEPT !.value = ""] ELSE r : r \in st}]

UpdateRefreshSources_none(o, lang) == {o}

\* lines 1613-1630: a row of lang whose 'en' counterpart has another source
\* takes that source and becomes fuzzy; of several 'en' rows that address
\* the same rows the one updated last wins
UpdateRefreshSources(o, lang) ==
    LET st == o.store
        en == {r \in st : r.lang = "en" /\ r.type \in _updatable_types}
        tg == {r \in st : r.lang = lang /\ r.type \in _updatable_types}
        diff == {Cols5(r) : r \in en} \ {Cols5(r) : r \in tg}
        Addr(row) == [name |-> row.name, type |-> row.type,
                      res_id |-> IF row.res_id = 0 THEN -1 ELSE row.res_id,
                      module |-> row.module]
        addrs == {Addr(row) : row \in diff}
        lasts == {g \in [addrs -> diff] : \A a \in addrs : Addr(g[a]) = a}
        RowAddr(r) == [name |-> r.name, type |-> r.type, res_id |-> r.res_id,
                       module |-> r.module]
        Hit(r) == r.lang = lang /\ RowAddr(r) \in addrs
    IN  IF ~o.ok THEN {o}
        ELSE {[o EXCEPT !.store =
                  {IF Hit(r)
                   THEN [r EXCEPT !.fuzzy = TRUE, !.src = g[RowAddr(r)].src]
                   ELSE r : r \in st}] : g \in lasts}

UpdateFillFromSameSource_none(o, lang) == o

\* lines 1632-1651: an empty row of lang takes the greatest value another
\* row of lang has for the same source, and becomes fuzzy
UpdateFillFromSameSource(o, lang) ==
    LET st == o.store
        Empty(r) == r.value = "" \/ r.value = Null
        emptySrc == {r.src : r \in {x \in st : Empty(x) /\ x.lang = lang}}
        donors == {r \in st : /\ r.lang = lang
                              /\ r.src # Null /\ r.src \in emptySrc
                              /\ ~Empty(r)}
        groups == {r.src : r \in donors}
        Value(src) == MaxValue({r.value : r \in {x \in donors : x.src = src}})
        Hit(r) == r.src \in groups /\ Empty(r) /\ r.lang = lang
    IN  IF ~o.ok THEN o
        ELSE [o EXCEPT !.store =
                 {IF Hit(r)
                  THEN [r EXCEPT !.fuzzy = TRUE, !.value = Value(r.src)]
                  ELSE r : r \in st}]

UpdateClearFuzzyOnEmpty_none(o, lang) == o

\* lines 1653-1657: no empty row of lang stays fuzzy
UpdateClearFuzzyOnEmpty(o, lang) ==
    LET Hit(r) == (r.value = "" \/ r.value = Null) /\ r.lang = lang
    IN  IF ~o.ok THEN o
        ELSE [o EXCEPT !.store =
                 {IF Hit(r) THEN [r EXCEPT !.fuzzy = FALSE] ELSE r :
                     r \in o.store}]


\* the steps of do_update with the fill from the same source taken before
\* the refresh of the sources
do_update_fill_first(c, st, nid, lang) ==
    LET o0 == [store |-> st, nextId |-> nid, cache |-> c, ok |-> TRUE]
        s1 == UpdateCreate(o0, lang, _source_types, TRUE)
        s2 == {UpdateDropParentCopies(o, lang, _source_types, TRUE) : o \in s1}
        s3 == UNION {UpdateCreate(o, lang, _ressource_types, FALSE) : o \in s2}
        s4 == {UpdateDropParentCopies(o, lang, _ressource_types, FALSE) :
                  o \in s3}
        s5 == {UpdateFillFromSameSource(o, lang) : o \in s4}
        s6 == UNION {UpdateRefreshSources(o, lang) : o \in s5}
        s7 == {UpdateClearFuzzyOnEmpty(o, lang) : o \in s6}
    IN  {IF o.ok THEN o
         ELSE [store |-> st, nextId |-> nid, cache |-> o.cache, ok |-> FALSE] :
            o \in s7}

\* do_update for self.start.language.code = lang: every outcome
\* [store, nextId, cache, ok]; an error of create ends the update
do_update(c, st, nid, lang) ==
    LET o0 == [store |-> st, nextId |-> nid, cache |-> c, ok |-> TRUE]
        s1 == UpdateCreate(o0, lang, _source_types, TRUE)
        s2 == {UpdateDropParentCopies(o, lang, _source_types, TRUE) : o \in s1}
        s3 == UNION {UpdateCreate(o, lang, _ressource_types, FALSE) : o \in s2}
        s4 == {UpdateDropParentCopies(o, lang, _ressource_types, FALSE) :
                  o \in s3}
        s5 == UNION {UpdateRefreshSources(o, lang) : o \in s4}
        s6 == {UpdateFillFromSameSource(o, lang) : o \in s5}
        s7 == {UpdateClearFuzzyOnEmpty(o, lang) : o \in s6}
    IN  {IF o.ok THEN o
         ELSE [store |-> st, nextId |-> nid, cache |-> o.cache, ok |-> FALSE] :
            o \in s7}

----------------------------------------------------------------------------
(* The maintenance specification: the sequential operations together with  *)
(* the Update wizard, on a store that holds reference-language rows.       *)

UpdateSeed ==
    {Row(1, N, -1, "en", "field", "b", "", "modA", FALSE),
     Row(2, N, -1, "fr", "field", "a", "x", "modA", FALSE),
     Row(3, N, -1, "en", "error", "a", "", "modA", FALSE),
     Row(4, N, -1, "fr_CA", "field", "b", "x", "modA", FALSE),
     Row(5, N, 1, "fr", "model", "a", "y", "modA", FALSE),
     Row(6, N, -1, "fr", "error", "a", "y", "modA", FALSE)}

UpdateRequests ==
    {<<N, "field", "fr", Null>>, <<N, "field", "fr_CA", Null>>,
     <<N, "error", "fr", "a">>}

UpdateIdCalls == {<<N, "model", l, <<1>>>> : l \in {"fr", "fr_CA"}}

InitUpdate ==
    /\ store = UpdateSeed
    /\ nextId = 7
    /\ cache = EmptyCache
    /\ langCache = NoLanguages
    /\ hist = <<>>
    /\ txn = Idle
    /\ pend = Idle
    /\ imp = Null

Update(lang) ==
    /\ Len(hist) < MaxOps
    /\ \E o \in do_update(cache, store, nextId, lang) :
          /\ store' = o.store
          /\ nextId' = o.nextId
          /\ cache' = o.cache
          /\ hist' = Append(hist, Op("update", FALSE, <<lang>>,
                                     [before |-> store, after |-> o.store],
                                     o.ok))
    /\ UNCHANGED <<langCache, txn, pend, imp>>

NextUpdate ==
    \/ \E r \in UpdateRequests, fz \in BOOLEAN : GetSources(<<r>>, fz)
    \/ \E call \in UpdateIdCalls, fz \in BOOLEAN : GetIds(call, fz)
    \/ \E r \in store, values \in WriteVals : Write(r, values)
    \/ \E lang \in {"fr", "fr_CA"} : Update(lang)

SpecUpdate == InitUpdate /\ [][NextUpdate]_vars

\* C3: after any sequence of completed operations every cache entry equals
\* what resolution against the current store returns for its key, so that
\* dropping the cache changes no later result.
C3_CacheEqualsFresh ==
    /\ \A k \in DOMAIN cache.src : cache.src[k] \in Resolves(store, k)
    /\ \A k \in DOMAIN cache.ids :
          cache.ids[k] \in ResolvesId(store, k[1], k[2], k[3], k[4], FALSE)

----------------------------------------------------------------------------
(* The concurrent specifications: request contexts that share the          *)
(* translation cache and whose handlers interleave between their           *)
(* statements.  A mutation is two steps, the cache clear (the first        *)
(* statement of create, write and delete) and the store change (the call   *)
(* of super()); a get_sources call is two steps, the lookups and queries   *)
(* and then the cache fill.                                                *)

MaxConcOps == 3     \* operations completed per behaviour, all contexts together

Contexts == {1, 2}

\* a context's connection: autocommit, or a transaction that reads its own
\* snapshot of the store (base) with its own changes applied (view)
Auto == [mode |-> "auto", base |-> {}, view |-> {}]
NoTxn == [mode |-> "idle", base |-> {}, view |-> {}]

NoStep == [kind |-> "idle", ids |-> {}, values |-> EmptyMap]

MutationKinds == {"create", "write", "delete"}

\* the rows the cursor of context c reads and writes
View(c) == IF txn[c].mode = "open" THEN txn[c].view ELSE store

Active(c) == txn[c].mode \in {"auto", "open"}

ConcSeed == {Row(1, N, -1, "fr", "field", "a", "x", "modA", FALSE)}

ConcRequests == {<<N, "field", "fr", Null>>, <<N, "field", "fr_CA", Null>>}

ConcMutations ==
    {[kind |-> "write", ids |-> {1}, values |-> [value |-> "y"]],
     [kind |-> "delete", ids |-> {1}, values |-> EmptyMap],
     [kind |-> "create", ids |-> {},
      values |-> [name |-> N, res_id |-> -1, lang |-> "fr_CA",
                  type |-> "field", src |-> "a", value |-> "y",
                  module |-> "modA"]]}

InitConc ==
    /\ store = ConcSeed
    /\ nextId = 2
    /\ cache = EmptyCache
    /\ langCache = NoLanguages
    /\ hist = <<>>
    /\ txn = [c \in Contexts |-> Auto]
    /\ pend = [c \in Contexts |-> NoStep]
    /\ imp = Null

InitTxn ==
    /\ store = ConcSeed
    /\ nextId = 2
    /\ cache = EmptyCache
    /\ langCache = NoLanguages
    /\ hist = <<>>
    /\ txn = [c \in Contexts |-> NoTxn]
    /\ pend = [c \in Contexts |-> NoStep]
    /\ imp = Null

\* cls._translation_cache.clear(), the first statement of create, write
\* and delete
MutClear(c, m) ==
    /\ Len(hist) < MaxConcOps
    /\ Active(c)
    /\ pend[c].kind = "idle"
    /\ m.kind \in {"write", "delete"} => \E r \in View(c) : r.id \in m.ids
    /\ cache' = cache_clear(cache)
    /\ pend' = [pend EXCEPT ![c] = m]
    /\ UNCHANGED <<store, nextId, langCache, hist, txn, imp>>

\* the store change of the mutation in flight: super().create / write / delete
MutStore(c) ==
    /\ pend[c].kind \in MutationKinds
    /\ \E o \in (IF pend[c].kind = "create"
                 THEN create_rows(View(c), nextId, <<pend[c].values>>, Null)
                 ELSE IF pend[c].kind = "write"
                 THEN {[store |-> write_rows(View(c), pend[c].ids,
                                             pend[c].values).store,
                        nextId |-> nextId,
                        ok |-> write_rows(View(c), pend[c].ids,
                                          pend[c].values).ok]}
                 ELSE {[store |-> delete_rows(View(c), pend[c].ids).store,
                        nextId |-> nextId, ok |-> TRUE]}) :
          /\ IF txn[c].mode = "open"
             THEN txn' = [txn EXCEPT ![c].view = o.store] /\ store' = store
             ELSE store' = o.store /\ txn' = txn
          /\ nextId' = o.nextId
          /\ hist' = Append(hist, Op(pend[c].kind, FALSE, <<c>>, EmptyMap, o.ok))
    /\ pend' = [pend EXCEPT ![c] = NoStep]
    /\ UNCHANGED <<cache, langCache, imp>>

\* get_sources up to its queries (lines 636-683)
SourcesQuery(c, args) ==
    /\ Len(hist) < MaxConcOps
    /\ Active(c)
    /\ pend[c].kind = "idle"
    /\ \E o \in sources_resolve(cache, View(c), args) :
          /\ cache' = o.cache
          /\ pend' = [pend EXCEPT ![c] =
                         [kind |-> "sources", ids |-> {},
                          values |-> [args |-> args, res |-> o.res,
                                      update_cache |-> o.update_cache]]]
    /\ UNCHANGED <<store, nextId, langCache, hist, txn, imp>>

\* get_sources: the cache fill and the return (lines 684-687)
SourcesFill(c) ==
    /\ pend[c].kind = "sources"
    /\ cache' = sources_fill(cache, pend[c].values.res,
                             pend[c].values.update_cache)
    /\ hist' = Append(hist, Op("get_sources", FALSE,
                               <<c, pend[c].values.args>>,
                               pend[c].values.res, TRUE))
    /\ pend' = [pend EXCEPT ![c] = NoStep]
    /\ UNCHANGED <<store, nextId, langCache, txn, imp>>

\* Transaction().start: the context reads a snapshot of the committed rows
Begin(c) ==
    /\ Len(hist) < MaxConcOps
    /\ txn[c].mode = "idle"
    /\ txn' = [txn EXCEPT ![c] = [mode |-> "open", base |-> store,
                                  view |-> store]]
    /\ UNCHANGED <<store, nextId, cache, langCache, hist, pend, imp>>

\* commit: the changes of the transaction become the committed rows; a
\* transaction whose snapshot is out of date cannot commit
Commit(c) ==
    /\ txn[c].mode = "open"
    /\ pend[c].kind = "idle"
    /\ store = txn[c].base
    /\ store' = txn[c].view
    /\ txn' = [txn EXCEPT ![c] = NoTxn]
    /\ hist' = Append(hist, Op("commit", FALSE, <<c>>, txn[c].view, TRUE))
    /\ UNCHANGED <<nextId, cache, langCache, pend, imp>>

\* rollback: the changes of the transaction are dropped
Rollback(c) ==
    /\ txn[c].mode = "open"
    /\ pend[c].kind = "idle"
    /\ txn' = [txn EXCEPT ![c] = NoTxn]
    /\ hist' = Append(hist, Op("rollback", FALSE, <<c>>, EmptyMap, TRUE))
    /\ UNCHANGED <<store, nextId, cache, langCache, pend, imp>>

NextConc ==
    \/ \E c \in Contexts, m \in ConcMutations : MutClear(c, m)
    \/ \E c \in Contexts : MutStore(c)
    \/ \E c \in Contexts, r \in ConcRequests : SourcesQuery(c, <<r>>)
    \/ \E c \in Contexts : SourcesFill(c)

SpecConc == InitConc /\ [][NextConc]_vars

NextTxn ==
    \/ \E c \in Contexts, m \in ConcMutations : MutClear(c, m)
    \/ \E c \in Contexts : MutStore(c)
    \/ \E c \in Contexts, r \in ConcRequests : SourcesQuery(c, <<r>>)
    \/ \E c \in Contexts : SourcesFill(c)
    \/ \E c \in Contexts : Begin(c)
    \/ \E c \in Contexts : Commit(c)
    \/ \E c \in Contexts : Rollback(c)

SpecTxn == InitTxn /\ [][NextTxn]_vars

\* C4: once a create, write or delete has completed, no later get_sources
\* call in any context returns the value from before that mutation: a call
\* that starts while no mutation is in flight returns what resolution
\* against the store gives.
C4_NoStaleAfterMutation ==
    [][\A c \in Contexts :
          (/\ pend[c].kind = "idle" /\ pend'[c].kind = "sources"
           /\ \A d \in Contexts : pend[d].kind \notin MutationKinds
           /\ \E i \in DOMAIN hist : hist[i].op \in MutationKinds)
          => \A r \in Range(pend'[c].values.args) :
                pend'[c].values.res[r] \in Resolves(store, r)]_vars

\* the values of the rows that were committed at some time
CommittedValues ==
    {r.value : r \in ConcSeed}
        \cup UNION {{r.value : r \in hist[i].res} :
                       i \in {j \in DOMAIN hist : hist[j].op = "commit"}}

\* C5: every cache entry holds only values that are committed in the store:
\* when no transaction is open, no cached value comes from a transaction
\* that was rolled back.
C5_CacheHoldsCommittedOnly ==
    (\A c \in Contexts : txn[c].mode = "idle" /\ pend[c].kind = "idle") =>
        \A k \in DOMAIN cache.src :
            cache.src[k] # Null => cache.src[k] \in CommittedValues

----------------------------------------------------------------------------
(* translation_import: the reconciliation of the rows of (lang, module)    *)
(* with a catalog.  A catalog entry is                                     *)
(*   [msgctxt |-> <<ttype, name, res_id>>, msgid, msgstr, fuzzy, obsolete] *)
(* where res_id, a reference, is the sequence of its dot-separated parts.  *)

\* the rows of ir.model.data: ModelData.search
ModelDataRows ==
    {[module |-> "modA", model |-> "m", fs_id |-> "fs1", db_id |-> 1,
      noupdate |-> FALSE],
     [module |-> "modA", model |-> "m", fs_id |-> "fs2", db_id |-> 2,
      noupdate |-> TRUE],
     [module |-> "modB", model |-> "m", fs_id |-> "fs1", db_id |-> 1,
      noupdate |-> FALSE]}

extra_model_data(model_data) ==
    IF model_data.model \in {"ir.action.report", "ir.action.act_window",
                             "ir.action.wizard", "ir.action.url"}
    THEN {"ir.action"} ELSE {}

\* fs_id2prop[model][fs_id], as the set of the (db_id, noupdate) records the
\* dict may hold under that key
fs_id2prop(module, model, fs_id) ==
    {md \in ModelDataRows :
        /\ md.module = module
        /\ md.fs_id = fs_id
        /\ (md.model = model \/ model \in extra_model_data(md))}

\* a key that every kind has
unique_key_any(t) ==
    IF t.type \in {"report", "view", "wizard_button", "selection", "error"}
    THEN <<t.name, t.res_id, t.type, t.src>>
    ELSE <<t.name, t.res_id, t.type>>

\* the key a row or an entry is matched by; <<>> is None
unique_key(t) ==
    IF t.type \in {"report", "view", "wizard_button", "selection", "error"}
    THEN <<t.name, t.res_id, t.type, t.src>>
    ELSE IF t.type \in {"field", "model", "help"}
    THEN <<t.name, t.res_id, t.type>>
    ELSE <<>>

\* from_poentry: the translation of an entry and its reference
from_poentry(entry) ==
    [translation |-> [name |-> entry.msgctxt[2], type |-> entry.msgctxt[1],
                      src |-> entry.msgid, fuzzy |-> entry.fuzzy,
                      value |-> entry.msgstr],
     res_id |-> entry.msgctxt[3]]

\* int(res_id) of a reference without dot: the number it spells, else a
\* ValueError
IntStrings == {"0", "1", "2", "3"}
IntOf(str) == IF str = "0" THEN 0 ELSE IF str = "1" THEN 1
              ELSE IF str = "2" THEN 2 ELSE 3

\* an entry whose noupdate flag is never read
EntryResId_update(module, name, ref) ==
    LET found == fs_id2prop(module, name[1], ref[1])
    IN  IF found # {}
        THEN {[res_id |-> IF md.db_id = 0 THEN -1 ELSE md.db_id,
               noupdate |-> FALSE] : md \in found}
        ELSE {[res_id |-> IF ref[1] \in IntStrings /\ IntOf(ref[1]) # 0
                          THEN IntOf(ref[1]) ELSE -1,
               noupdate |-> FALSE]}

\* lines 882-895: the res_id and noupdate flag of an entry without dot
EntryResId(module, name, ref) ==
    LET found == fs_id2prop(module, name[1], ref[1])
    IN  IF found # {}
        THEN {[res_id |-> IF md.db_id = 0 THEN -1 ELSE md.db_id,
               noupdate |-> md.noupdate] : md \in found}
        ELSE {[res_id |-> IF ref[1] \in IntStrings /\ IntOf(ref[1]) # 0
                          THEN IntOf(ref[1]) ELSE -1,
               noupdate |-> FALSE]}

NoItem == [kind |-> "none", id |-> 0, values |-> EmptyMap]

\* an override that does not stamp the overriding module
override_translation_nostamp(st, module, ref, new) ==
    LET res_id_module == ref[1]
        data == {md \in ModelDataRows :
                    md.module = res_id_module /\ md.fs_id = ref[2]}
        res_ids == IF ref[2] # "" THEN {md.db_id : md \in data} ELSE {-1}
        Found(res_id) ==
            {r \in st :
                /\ r.name = new.name /\ r.res_id = res_id
                /\ r.lang = new.lang /\ r.type = new.type
                /\ r.module = res_id_module
                /\ (new.type \in SourceTypes => r.src = new.src)}
    IN  IF Len(ref) # 2 \/ (ref[2] # "" /\ Cardinality(data) # 1)
        THEN {[ok |-> FALSE, item |-> NoItem]}
        ELSE {IF Cardinality(Found(res_id)) > 1
              THEN [ok |-> FALSE, item |-> NoItem]
              ELSE IF \E r \in Found(res_id) : r.value # new.value
              THEN [ok |-> TRUE,
                    item |-> [kind |-> "override",
                              id |-> (CHOOSE r \in Found(res_id) : TRUE).id,
                              values |-> [value |-> new.value,
                                          fuzzy |-> new.fuzzy]]]
              ELSE [ok |-> TRUE, item |-> NoItem] : res_id \in res_ids}

\* override_translation(ressource_id, new_translation): the item appended
\* to to_save, or an error
override_translation(st, module, ref, new) ==
    LET res_id_module == ref[1]
        data == {md \in ModelDataRows :
                    md.module = res_id_module /\ md.fs_id = ref[2]}
        res_ids == IF ref[2] # "" THEN {md.db_id : md \in data} ELSE {-1}
        Found(res_id) ==
            {r \in st :
                /\ r.name = new.name /\ r.res_id = res_id
                /\ r.lang = new.lang /\ r.type = new.type
                /\ r.module = res_id_module
                /\ (new.type \in SourceTypes => r.src = new.src)}
    IN  IF Len(ref) # 2 \/ (ref[2] # "" /\ Cardinality(data) # 1)
        THEN {[ok |-> FALSE, item |-> NoItem]}
        ELSE {IF Cardinality(Found(res_id)) > 1
              THEN [ok |-> FALSE, item |-> NoItem]
              ELSE IF \E r \in Found(res_id) : r.value # new.value
              THEN [ok |-> TRUE,
                    item |-> [kind |-> "override",
                              id |-> (CHOOSE r \in Found(res_id) : TRUE).id,
                              values |-> [value |-> new.value,
                                          overriding_module |-> module,
                                          fuzzy |-> new.fuzzy]]]
              ELSE [ok |-> TRUE, item |-> NoItem] : res_id \in res_ids}

\* lines 869-916: one entry of the catalog in one pass.  S is
\* [to_save, kept, ok]: the items appended to to_save, the ids of the rows
\* added to translations for noupdate, and whether no error was raised;
\* rows are the preloaded rows of (lang, module), whose ids key2ids files
\* under their unique_key.
ImportEntry(S, entry, st, lang, module, rows, processing) ==
    LET p == from_poentry(entry)
        ref == p.res_id
        tr0 == [name |-> p.translation.name, type |-> p.translation.type,
                src |-> p.translation.src, fuzzy |-> p.translation.fuzzy,
                value |-> p.translation.value, lang |-> lang,
                module |-> module]
    IN  IF ~S.ok \/ entry.obsolete THEN {S}
        ELSE IF Len(ref) > 1
        THEN {[to_save |-> Append(S.to_save, o.item), kept |-> S.kept,
               ok |-> o.ok] :
                 o \in override_translation(st, module, ref, tr0)}
        ELSE {LET translation ==
                      [name |-> tr0.name, type |-> tr0.type, src |-> tr0.src,
                       fuzzy |-> tr0.fuzzy, value |-> tr0.value,
                       lang |-> lang, module |-> module, res_id |-> e.res_id]
                  key == unique_key(translation)
                  ids == {r.id : r \in {x \in rows : unique_key(x) = key}}
              IN  IF key = <<>>
                  THEN [to_save |-> S.to_save, kept |-> S.kept, ok |-> FALSE]
                  ELSE IF ~processing THEN S
                  ELSE IF ids = {}
                  THEN [to_save |-> Append(S.to_save,
                                      [kind |-> "new", id |-> 0,
                                       values |-> translation]),
                        kept |-> S.kept, ok |-> TRUE]
                  ELSE IF ~e.noupdate
                  THEN [to_save |->
                            S.to_save \o
                            [i \in 1..Cardinality(ids) |->
                                [kind |-> "old",
                                 id |-> (CHOOSE o \in Orders(ids) : TRUE)[i],
                                 values |-> [value |-> translation.value,
                                             fuzzy |-> translation.fuzzy]]],
                        kept |-> S.kept, ok |-> TRUE]
                  ELSE [to_save |-> S.to_save, kept |-> S.kept \cup ids,
                        ok |-> TRUE] :
                e \in EntryResId(module, tr0.name, ref)}

RECURSIVE ImportLoop(_, _, _, _, _, _, _)
ImportLoop(Ss, entries, st, lang, module, rows, processing) ==
    IF entries = <<>> THEN Ss
    ELSE ImportLoop(
            UNION {ImportEntry(S, entries[1], st, lang, module, rows,
                               processing) : S \in Ss},
            Tail(entries), st, lang, module, rows, processing)

\* an import that processes the entries in both of its two passes
processes_twice(n, record) ==
    IF n <= record THEN <<TRUE>> ELSE <<TRUE, TRUE>>

\* lines 858-861: one processing pass over the catalog when the preloaded
\* rows are at most config.getint('cache', 'record'), else an id-collecting
\* pass and then the processing pass
processes(n, record) ==
    IF n <= record THEN <<TRUE>> ELSE <<FALSE, TRUE>>

\* for processing in processes: the passes over the catalog, one after the
\* other
RECURSIVE ImportPasses(_, _, _, _, _, _, _)
ImportPasses(Ss, passes, catalog, st, lang, module, rows) ==
    IF passes = <<>> THEN Ss
    ELSE ImportPasses(
            ImportLoop(Ss, catalog, st, lang, module, rows, passes[1]),
            Tail(passes), catalog, st, lang, module, rows)

\* cls.save(filter(None, to_save)): the new records are created, then the
\* changed records are written, each through Translation.create / write
RECURSIVE SaveWrites(_, _)
SaveWrites(st, items) ==
    IF items = <<>> THEN st
    ELSE SaveWrites(write_rows(st, {items[1].id}, items[1].values).store,
                    Tail(items))

IsNew(item) == item.kind = "new"
IsWrite(item) == item.kind \in {"old", "override"}

ImportSave(c, st, nid, to_save) ==
    LET news == SelectSeq(to_save, IsNew)
        writes == SelectSeq(to_save, IsWrite)
        created == IF news = <<>>
                   THEN {[store |-> st, nextId |-> nid, cache |-> c,
                          ok |-> TRUE]}
                   ELSE create(c, st, nid,
                               [i \in DOMAIN news |-> news[i].values], Null)
    IN  {IF ~o.ok THEN [store |-> st, nextId |-> nid, cache |-> o.cache,
                        ok |-> FALSE, ids |-> {}]
         ELSE [store |-> SaveWrites(o.store, writes),
               nextId |-> o.nextId,
               cache |-> IF writes = <<>> THEN o.cache
                         ELSE cache_clear(o.cache),
               ok |-> TRUE,
               ids |-> {nid + i - 1 : i \in DOMAIN news}
                         \cup {writes[i].id : i \in DOMAIN writes}] :
            o \in created}

\* an import that deletes nothing
ToDelete_none(all_translations, translations) == {}

\* translations_to_delete = all_translations - translations
ToDelete(all_translations, translations) ==
    {r \in all_translations : r.id \notin translations}

\* translation_import(lang, module, po_path) for a catalog and a value of
\* config.getint('cache', 'record'): every outcome
\* [store, nextId, cache, ok, count].  An error leaves the rows as they
\* were: the import raises and its transaction is not committed.
translation_import(c, st, nid, lang, module, catalog, record) ==
    LET module_translations == {r \in st : r.lang = lang /\ r.module = module}
        Failed(cc) == [store |-> st, nextId |-> nid, cache |-> cc,
                       ok |-> FALSE, count |-> 0]
        S0 == [to_save |-> <<>>, kept |-> {}, ok |-> TRUE]
        looped == ImportPasses({S0},
                               processes(Cardinality(module_translations),
                                         record),
                               catalog, st, lang, module, module_translations)
        Finish(S, o) ==
            LET translations == S.kept \cup o.ids
                nonempty == S.kept # {} \/ S.to_save # <<>>
                all_translations ==
                    {r \in o.store : r.module = module /\ r.lang = lang}
                gone == ToDelete(all_translations, translations)
                hasNone == \E i \in DOMAIN S.to_save :
                              S.to_save[i].kind = "none"
            IN  IF nonempty
                THEN [store |-> delete(o.cache, o.store,
                                       {r.id : r \in gone}).store,
                      nextId |-> o.nextId,
                      cache |-> delete(o.cache, o.store,
                                       {r.id : r \in gone}).cache,
                      ok |-> TRUE,
                      count |-> Cardinality(translations)
                                  + (IF hasNone THEN 1 ELSE 0)]
                ELSE [store |-> o.store, nextId |-> o.nextId,
                      cache |-> o.cache, ok |-> TRUE, count |-> 0]
    IN  IF \E r \in module_translations : unique_key(r) = <<>>
        THEN {Failed(c)}
        ELSE UNION {
               IF ~S.ok THEN {Failed(c)}
               ELSE {IF o.ok THEN Finish(S, o) ELSE Failed(o.cache) :
                        o \in ImportSave(c, st, nid, S.to_save)} :
               S \in looped}

----------------------------------------------------------------------------
(* The import specification: a catalog chosen at the start is imported     *)
(* for (fr, modA), and imported again.                                     *)

MaxCatalog == 2     \* entries per catalog
MaxImports == 2     \* imports of the catalog per behaviour

Entry(ttype, ref, msgid, msgstr, fuzzy, obsolete) ==
    [msgctxt |-> <<ttype, N, ref>>, msgid |-> msgid, msgstr |-> msgstr,
     fuzzy |-> fuzzy, obsolete |-> obsolete]

Entries ==
    {Entry("field", <<"">>, "a", "x", FALSE, FALSE),
     Entry("field", <<"">>, "b", "y", FALSE, FALSE),
     Entry("model", <<"fs1">>, "a", "x", FALSE, FALSE),
     Entry("model", <<"fs2">>, "a", "y", FALSE, FALSE),
     Entry("field", <<"modB", "">>, "a", "y", TRUE, FALSE),
     Entry("field", <<"modB", "">>, "a", "x", FALSE, FALSE),
     Entry("model", <<"modB", "fs9">>, "a", "y", FALSE, FALSE),
     Entry("error", <<"modB", "">>, "a", "y", FALSE, FALSE),
     Entry("odd", <<"">>, "a", "x", FALSE, FALSE),
     Entry("odd", <<"modB", "">>, "a", "x", FALSE, FALSE),
     Entry("odd", <<"">>, "a", "x", FALSE, TRUE),
     Entry("error", <<"">>, "a", "x", TRUE, FALSE),
     Entry("field", <<"">>, "a", "y", FALSE, TRUE),
     Entry("help", <<"2">>, "a", "x", FALSE, FALSE),
     Entry("model", <<"2">>, "a", "y", FALSE, FALSE)}

Catalogs == UNION {[1..n -> Entries] : n \in 0..MaxCatalog}

ImportRows ==
    {Row(1, N, -1, "fr", "field", "a", "y", "modA", FALSE),
     Row(2, N, 2, "fr", "model", "a", "x", "modA", FALSE),
     Row(3, N, -1, "fr", "error", "b", "x", "modA", FALSE),
     Row(4, N, -1, "fr", "field", "a", "x", "modB", FALSE),
     Row(5, N, -1, "fr_CA", "field", "a", "x", "modA", FALSE),
     Row(6, N, -1, "fr", "error", "b", "x", "modB", FALSE),
     Row(7, N, -1, "fr", "odd", "a", "x", "modA", FALSE)}

ImportStores ==
    {{}, {r \in ImportRows : r.id \in {1, 4, 5}},
     {r \in ImportRows : r.id \in {2, 3, 4}},
     {r \in ImportRows : r.id \in 1..6},
     {r \in ImportRows : r.id \in {1, 7}}}

\* config.getint('cache', 'record'): at or above every store of the model,
\* or below some
RecordLimits == {1, 3}

InitImport ==
    /\ store \in ImportStores
    /\ nextId = 8
    /\ cache = EmptyCache
    /\ langCache = NoLanguages
    /\ hist = <<>>
    /\ txn = Idle
    /\ pend = Idle
    /\ imp \in Catalogs

Import(record) ==
    /\ Len(hist) < MaxImports
    /\ \E o \in translation_import(cache, store, nextId, "fr", "modA", imp,
                                   record) :
          /\ store' = o.store
          /\ nextId' = o.nextId
          /\ cache' = o.cache
          /\ hist' = Append(hist, Op("import", FALSE, imp,
                                     [count |-> o.count, before |-> store,
                                      after |-> o.store, record |-> record],
                                     o.ok))
    /\ UNCHANGED <<langCache, txn, pend, imp>>

NextImport == \E record \in RecordLimits : Import(record)

SpecImport == InitImport /\ [][NextImport]_vars

\* a store without the row ids
Content(st) ==
    {[name |-> r.name, res_id |-> r.res_id, lang |-> r.lang, type |-> r.type,
      src |-> r.src, value |-> r.value, module |-> r.module,
      fuzzy |-> r.fuzzy, overriding_module |-> r.overriding_module] :
        r \in st}

\* C9: importing the same catalog for the same (lang, module) twice in a
\* row leaves the same rows, with the same source, value, fuzzy flag and
\* overriding module, as importing it once.
C9_ImportIdempotent ==
    (Len(hist) = 2 /\ hist[1].op = "import" /\ hist[1].ok) =>
        Content(hist[2].res.after) = Content(hist[1].res.after)

Live(catalog) == {i \in DOMAIN catalog : ~catalog[i].obsolete}

\* the keys of the rows of (lang, module) that the entries of a catalog
\* address
EntryKeys(module, catalog) ==
    UNION {
      LET p == from_poentry(catalog[i])
          t == p.translation
          ref == p.res_id
      IN  IF Len(ref) = 1
          THEN {unique_key([name |-> t.name, type |-> t.type, src |-> t.src,
                            res_id |-> e.res_id]) :
                    e \in EntryResId(module, t.name, ref)}
          ELSE IF ref[1] # module THEN {}
          ELSE IF ref[2] = ""
          THEN {unique_key([name |-> t.name, type |-> t.type, src |-> t.src,
                            res_id |-> -1])}
          ELSE {unique_key([name |-> t.name, type |-> t.type, src |-> t.src,
                            res_id |-> md.db_id]) :
                    md \in {x \in ModelDataRows :
                               x.module = module /\ x.fs_id = ref[2]}} :
      i \in Live(catalog)}

\* the rows of (fr, modA) before the last import that no entry addresses
Unmatched ==
    {r \in Last(hist).res.before :
        /\ r.lang = "fr" /\ r.module = "modA"
        /\ unique_key(r) \notin EntryKeys("modA", Last(hist).args)}

\* C10 as stated: after a successful import every row of (lang, module)
\* that existed before and whose key matches no catalog entry is deleted,
\* for every catalog, the empty one included.
C10_UnmatchedRowsDeleted ==
    (hist # <<>> /\ Last(hist).op = "import" /\ Last(hist).ok) =>
        \A r \in Unmatched : r.id \notin {x.id : x \in Last(hist).res.after}

\* C10 amended: after a successful import of a catalog with at least one
\* entry that is not obsolete (override entries count), every row of
\* (lang, module) that existed before and whose key matches no catalog
\* entry is deleted; a catalog without such an entry leaves every row as it
\* was.
C10_UnmatchedRowsDeletedUnlessEmpty ==
    (hist # <<>> /\ Last(hist).op = "import" /\ Last(hist).ok) =>
        IF Live(Last(hist).args) # {}
        THEN \A r \in Unmatched :
                r.id \notin {x.id : x \in Last(hist).res.after}
        ELSE Last(hist).res.after = Last(hist).res.before

\* C10 witness: a catalog of override entries only was imported and a row
\* of (fr, modA) that it does not address is gone
C10_Witness ==
    /\ Len(hist) = 1 /\ hist[1].op = "import" /\ hist[1].ok
    /\ Live(hist[1].args) # {}
    /\ \A i \in DOMAIN hist[1].args : Len(hist[1].args[i].msgctxt[3]) = 2
    /\ \E r \in hist[1].res.before :
          /\ r.module = "modA" /\ r.lang = "fr"
          /\ r.id \notin {x.id : x \in store}

\* whether the id mapping of a row's resource, as the module declares it,
\* carries the noupdate flag
NoupdateRow(module, r) ==
    \E md \in ModelDataRows :
        /\ md.module = module
        /\ (md.model = r.name[1] \/ r.name[1] \in extra_model_data(md))
        /\ md.db_id = r.res_id
        /\ md.noupdate

\* C11: an import never deletes a row of (lang, module) whose id mapping
\* carries the noupdate flag, whether or not the catalog has an entry for
\* that row.
C11_NoupdateRowsNeverDeleted ==
    (hist # <<>> /\ Last(hist).op = "import" /\ Last(hist).ok) =>
        \A r \in Last(hist).res.before :
            (r.lang = "fr" /\ r.module = "modA" /\ NoupdateRow("modA", r))
                => r.id \in {x.id : x \in Last(hist).res.after}

\* whether entry i of the catalog addresses row r of the module
Addresses(module, catalog, i, r) ==
    /\ i \in Live(catalog)
    /\ unique_key(r) \in EntryKeys(module, <<catalog[i]>>)

\* whether the reference of entry i names an id mapping of the module that
\* carries the noupdate flag
Protected(module, catalog, i) ==
    LET p == from_poentry(catalog[i])
        found == fs_id2prop(module, p.translation.name[1], p.res_id[1])
    IN  /\ Len(p.res_id) = 1
        /\ found # {}
        /\ \A md \in found : md.noupdate

\* row r as the store st holds it now
Same(st, r) == r \in st

\* C12 as stated: when a catalog entry matches an existing row and the
\* entry's id mapping carries the noupdate flag, the import leaves the row's
\* value and fuzzy flag unchanged and does not delete the row.
C12_NoupdateEntryLeavesRow ==
    (hist # <<>> /\ Last(hist).op = "import" /\ Last(hist).ok) =>
        \A r \in Last(hist).res.before :
            (/\ r.lang = "fr" /\ r.module = "modA"
             /\ \E i \in DOMAIN Last(hist).args :
                   /\ Addresses("modA", Last(hist).args, i, r)
                   /\ Protected("modA", Last(hist).args, i))
                => \E x \in Last(hist).res.after :
                      x.id = r.id /\ x.value = r.value /\ x.fuzzy = r.fuzzy

\* C12 amended: when a catalog entry matches an existing row and the
\* entry's id mapping carries the noupdate flag, and every other entry of
\* the catalog that addresses the row does so through such a mapping too,
\* the import leaves the row as it was and does not delete it.
C12_NoupdateEntryLeavesRowUnlessRematched ==
    (hist # <<>> /\ Last(hist).op = "import" /\ Last(hist).ok) =>
        \A r \in Last(hist).res.before :
            (/\ r.lang = "fr" /\ r.module = "modA"
             /\ \E i \in DOMAIN Last(hist).args :
                   /\ Addresses("modA", Last(hist).args, i, r)
                   /\ Protected("modA", Last(hist).args, i)
             /\ \A j \in DOMAIN Last(hist).args :
                   Addresses("modA", Last(hist).args, j, r)
                       => Protected("modA", Last(hist).args, j))
                => Same(Last(hist).res.after, r)

\* C12 witness: an entry with another value matched a row through a
\* noupdate mapping, the import deleted another row and the matched row is
\* still there with its value
C12_Witness ==
    /\ Len(hist) = 1 /\ hist[1].op = "import" /\ hist[1].ok
    /\ hist[1].res.after # hist[1].res.before
    /\ \E r \in hist[1].res.before :
          /\ r.lang = "fr" /\ r.module = "modA" /\ r \in store
          /\ \E i \in DOMAIN hist[1].args :
                /\ Addresses("modA", hist[1].args, i, r)
                /\ Protected("modA", hist[1].args, i)
                /\ hist[1].args[i].msgstr # r.value

\* the live entries of a catalog whose reference is dotted and names a
\* module other than the importing one
OverrideEntries(module, catalog) ==
    {i \in Live(catalog) :
        /\ Len(catalog[i].msgctxt[3]) = 2
        /\ catalog[i].msgctxt[3][1] # module}

\* the rows of st that override entry e addresses: the rows of the
\* referenced module with the entry's name, resource, language and kind, and
\* its source for the kinds matched by source
Targets(st, lang, e) ==
    LET ref == e.msgctxt[3]
        res_ids == IF ref[2] = "" THEN {-1}
                   ELSE {md.db_id : md \in {x \in ModelDataRows :
                            x.module = ref[1] /\ x.fs_id = ref[2]}}
    IN  {r \in st :
            /\ r.module = ref[1] /\ r.lang = lang
            /\ r.name = e.msgctxt[2] /\ r.type = e.msgctxt[1]
            /\ r.res_id \in res_ids
            /\ (r.type \in SourceTypes => r.src = e.msgid)}

\* C13: for a catalog entry whose reference is dotted and names another
\* module, the import changes only the matching row of that module: a row
\* whose value differs from the entry's takes the entry's value and fuzzy
\* flag and the importing module as overriding module, a row with an equal
\* value stays as it was, and no row is created for the entry.
C13_OverrideChangesOnlyTarget ==
    (hist # <<>> /\ Last(hist).op = "import" /\ Last(hist).ok) =>
        LET cat == Last(hist).args
            before == Last(hist).res.before
            after == Last(hist).res.after
            Differing(r) ==
                {i \in OverrideEntries("modA", cat) :
                    r \in Targets(before, "fr", cat[i])
                    /\ cat[i].msgstr # r.value}
        IN  /\ \A r \in before :
                  r.module # "modA" =>
                      IF Differing(r) = {} THEN r \in after
                      ELSE \E i \in Differing(r) :
                              WriteRow(r, [value |-> cat[i].msgstr,
                                           fuzzy |-> cat[i].fuzzy,
                                           overriding_module |-> "modA"])
                                  \in after
            /\ \A x \in after :
                  x.id \notin {r.id : r \in before} =>
                      /\ x.module = "modA"
                      /\ \E i \in Live(cat) \ OverrideEntries("modA", cat) :
                            /\ unique_key(x) \in EntryKeys("modA", <<cat[i]>>)
                            /\ x.value = cat[i].msgstr

\* C13 witness: a catalog of override entries only was imported, the target
\* row has taken the entry's value, fuzzy flag and the overriding module,
\* and no row was created
C13_Witness ==
    /\ Len(hist) = 1 /\ hist[1].op = "import" /\ hist[1].ok
    /\ hist[1].args # <<>>
    /\ OverrideEntries("modA", hist[1].args) = DOMAIN hist[1].args
    /\ {x.id : x \in store} \subseteq {r.id : r \in hist[1].res.before}
    /\ \E r \in hist[1].res.before, x \in store :
          /\ x.id = r.id /\ r.module = "modB"
          /\ x.value # r.value /\ x.fuzzy /\ ~r.fuzzy
          /\ x.overriding_module = "modA"

\* whether the reference of override entry e names an id mapping that
\* does not exist
MappingMissing(e) ==
    /\ e.msgctxt[3][2] # ""
    /\ ~\E md \in ModelDataRows :
          md.module = e.msgctxt[3][1] /\ md.fs_id = e.msgctxt[3][2]

\* the override entries of a catalog whose id mapping or target row does
\* not exist in st
Unresolvable(st, module, catalog) ==
    {i \in OverrideEntries(module, catalog) :
        MappingMissing(catalog[i]) \/ Targets(st, "fr", catalog[i]) = {}}

\* a catalog without the entries at the positions of drop
Without(catalog, drop) ==
    LET F[i \in 0..Len(catalog)] ==
            IF i = 0 THEN <<>>
            ELSE IF i \in drop THEN F[i - 1]
            ELSE Append(F[i - 1], catalog[i])
    IN  F[Len(catalog)]

\* C14: an override entry whose target row or id mapping does not exist is
\* skipped without error: an import of a catalog with such entries fails
\* only if the import of the catalog without them fails too.
C14_UnresolvableSkipped ==
    (hist # <<>> /\ Last(hist).op = "import") =>
        LET cat == Last(hist).args
            before == Last(hist).res.before
            rest == Without(cat, Unresolvable(before, "modA", cat))
        IN  \/ Last(hist).ok
            \/ \E record \in RecordLimits :
                  \E o \in translation_import(EmptyCache, before, nextId,
                                              "fr", "modA", rest, record) :
                      ~o.ok

\* TRANSLATION_TYPE: the eight kinds
KnownKinds ==
    {"field", "model", "report", "selection", "view", "wizard_button",
     "help", "error"}

\* a row of (fr, modA) of an unknown kind exists before the last import
OddRow == \E r \in Last(hist).res.before :
             r.lang = "fr" /\ r.module = "modA" /\ r.type \notin KnownKinds

\* C15 as stated: when an existing row of (lang, module) or a catalog entry
\* has a kind outside the eight known kinds, the import aborts with an error
\* and leaves the store unchanged.
C15_UnknownKindAborts ==
    (hist # <<>> /\ Last(hist).op = "import") =>
        ((OddRow \/ \E i \in DOMAIN Last(hist).args :
                       Last(hist).args[i].msgctxt[1] \notin KnownKinds)
            => (~Last(hist).ok /\ store = Last(hist).res.before))

\* C15 amended: when an existing row of (lang, module), or a catalog entry
\* that is neither obsolete nor an override entry, has a kind outside the
\* eight known kinds, the import aborts with an error and leaves the store
\* unchanged.
C15_UnknownKindOfMatchedEntryAborts ==
    (hist # <<>> /\ Last(hist).op = "import") =>
        ((OddRow \/ \E i \in Live(Last(hist).args) :
                       /\ Len(Last(hist).args[i].msgctxt[3]) = 1
                       /\ Last(hist).args[i].msgctxt[1] \notin KnownKinds)
            => (~Last(hist).ok /\ store = Last(hist).res.before))

\* C15 witness: an import whose catalog has a valid entry for a new row and
\* then an entry of an unknown kind has failed and created nothing
C15_Witness ==
    /\ Len(hist) = 1 /\ hist[1].op = "import" /\ ~hist[1].ok
    /\ Len(hist[1].args) = 2
    /\ hist[1].args[1].msgctxt[1] = "field" /\ ~hist[1].args[1].obsolete
    /\ Len(hist[1].args[1].msgctxt[3]) = 1
    /\ hist[1].args[2].msgctxt[1] = "odd" /\ ~hist[1].args[2].obsolete
    /\ hist[1].res.before = {}
    /\ store = {}

\* what an import of catalog into st under the record threshold may give:
\* its rows without their ids, its count and whether it succeeded
ImportResults(st, nid, catalog, record) ==
    {[rows |-> Content(o.store), count |-> o.count, ok |-> o.ok] :
        o \in translation_import(EmptyCache, st, nid, "fr", "modA", catalog,
                                 record)}

\* C16: for the same catalog and the same initial store the import gives the
\* same final rows and the same count whether the preloaded rows are at most
\* the record threshold (one pass) or more (two passes).
C16_PassesAgree ==
    (hist # <<>> /\ Last(hist).op = "import") =>
        \A record \in RecordLimits :
            [rows |-> Content(Last(hist).res.after),
             count |-> Last(hist).res.count,
             ok |-> Last(hist).ok]
                \in ImportResults(Last(hist).res.before, nextId,
                                  Last(hist).args, record)

\* C16 witness: an import in two passes (three preloaded rows, threshold 1)
\* has created a row, rewritten a row and overridden a row of another module
C16_Witness ==
    /\ Len(hist) = 1 /\ hist[1].op = "import" /\ hist[1].ok
    /\ hist[1].res.record = 1
    /\ Cardinality({r \in hist[1].res.before :
                       r.lang = "fr" /\ r.module = "modA"}) = 3
    /\ hist[1].res.count > 1
    /\ \E x \in store : x.id \notin {r.id : r \in hist[1].res.before}
    /\ \E x \in store : x.overriding_module = "modA"

----------------------------------------------------------------------------
(* translation_export: the rows of (lang, module) written out as a catalog. *)
(* The store returns the rows in an order of its choosing (order=[]); the   *)
(* entries are appended in that order and the file is then sorted.  An      *)
(* exported entry has the shape of a catalog entry; its reference           *)
(* '%s' % res_id is one dot-free text.                                      *)

\* the texts of the model in the order of Python's text comparison
TextOrder ==
    <<"", "2", "3", "None", "a", "b", "error", "f", "field", "fs1", "fs2",
      "fs9", "help", "m", "model", "n", "odd", "report", "selection", "view",
      "wizard_button", "x", "y">>

TextRank(str) == CHOOSE i \in DOMAIN TextOrder : TextOrder[i] = str

\* tuples of ranks, compared as Python compares tuples
TupleLess(a, b) ==
    \E i \in DOMAIN a :
        /\ i \in DOMAIN b
        /\ a[i] < b[i]
        /\ \A j \in 1..(i - 1) : a[j] = b[j]

\* TrytonPOFile.sort: key=lambda x: (x.msgctxt, x.msgid), with the msgctxt
\* 'type:name:reference' compared part by part
SortKey(entry) ==
    <<TextRank(entry.msgctxt[1]), TextRank(entry.msgctxt[2][1]),
      TextRank(entry.msgctxt[2][2]), TextRank(entry.msgctxt[3][1]),
      TextRank(entry.msgid)>>

\* list.sort is stable: entries of equal key keep the order they were
\* appended in
RECURSIVE sort(_)
sort(entries) ==
    IF entries = <<>> THEN <<>>
    ELSE LET n == Len(entries)
             e == entries[n]
             done == sort(SubSeq(entries, 1, n - 1))
             k == Cardinality({i \in DOMAIN done :
                                  ~TupleLess(SortKey(e), SortKey(done[i]))})
         IN  SubSeq(done, 1, k) \o <<e>> \o SubSeq(done, k + 1, Len(done))

\* model in db_id2fs_id
InDbId2FsId(module, model) ==
    \E md \in ModelDataRows :
        md.module = module
        /\ (md.model = model \/ model \in extra_model_data(md))

\* a lookup that finds no fs_id
db_id2fs_id_none(module, model, res_id) == {"None"}

\* db_id2fs_id[model].get(res_id): the fs_id text filed under the db_id, one
\* of them when several model data rows share it, or None
db_id2fs_id(module, model, res_id) ==
    LET found == {md \in ModelDataRows :
                     /\ md.module = module
                     /\ md.db_id = res_id
                     /\ (md.model = model \/ model \in extra_model_data(md))}
    IN  IF found = {} THEN {"None"} ELSE {md.fs_id : md \in found}

NoError == [name |-> <<>>, overriding_module |-> Null]

\* an export that never takes a row for overridden
overridden_never(translation, module) == FALSE

\* lines 964-965: the row is overridden by another module
overridden(translation, module) ==
    /\ ~Falsy(translation.overriding_module)
    /\ translation.overriding_module # module

\* lines 963-986: the loop over the rows in the order the store gave them;
\* every [ok, entries, error] it may end with
RECURSIVE ExportLoop(_, _, _)
ExportLoop(S, rows, module) ==
    IF rows = <<>> \/ ~S.ok THEN {S}
    ELSE LET translation == rows[1]
             Emit(ref) ==
                 [ok |-> TRUE,
                  entries |-> Append(S.entries,
                      [msgctxt |-> <<translation.type, translation.name,
                                     <<ref>>>>,
                       msgid |-> IF translation.src = Null THEN ""
                                 ELSE translation.src,
                       msgstr |-> IF translation.value = Null THEN ""
                                  ELSE translation.value,
                       fuzzy |-> translation.fuzzy,
                       obsolete |-> FALSE]),
                  error |-> NoError]
             next ==
                 IF overridden(translation, module)
                 THEN {[ok |-> FALSE, entries |-> S.entries,
                        error |-> [name |-> translation.name,
                                   overriding_module |->
                                       translation.overriding_module]]}
                 ELSE IF translation.res_id >= 0
                 THEN IF Len(translation.name) # 2
                      THEN {[ok |-> FALSE, entries |-> S.entries,
                             error |-> NoError]}
                      ELSE IF InDbId2FsId(module, translation.name[1])
                      THEN {Emit(fs) :
                               fs \in db_id2fs_id(module, translation.name[1],
                                                  translation.res_id)}
                      ELSE {S}
                 ELSE {Emit("")}
         IN  UNION {ExportLoop(T, Tail(rows), module) : T \in next}

\* translation_export(lang, module): every outcome.  content is the sorted
\* file; none tells that nothing was returned (an empty file, or an error)
translation_export(st, lang, module) ==
    LET translations == {r \in st : r.lang = lang /\ r.module = module}
        S0 == [ok |-> TRUE, entries |-> <<>>, error |-> NoError]
        ends == UNION {ExportLoop(S0, order, module) :
                          order \in Orders(translations)}
    IN  {IF S.ok /\ S.entries # <<>>
         THEN [ok |-> TRUE, none |-> FALSE, content |-> sort(S.entries),
               error |-> NoError]
         ELSE [ok |-> S.ok, none |-> TRUE, content |-> <<>>,
               error |-> S.error] :
            S \in ends}

----------------------------------------------------------------------------
(* The export specification: imports of a catalog for (fr, modA) and        *)
(* exports of (fr, modA) and (fr, modB), in any order.                      *)

MaxExportOps == 2   \* imports and exports per behaviour

M == <<"n", "f">>

Overridden(r, module) == [r EXCEPT !.overriding_module = module]

ExportRows ==
    {Row(1, N, -1, "fr", "field", "a", "x", "modA", FALSE),
     Row(2, N, 2, "fr", "model", "a", "x", "modA", FALSE),
     Row(3, N, 3, "fr", "help", "a", "x", "modA", TRUE),
     Row(4, M, 1, "fr", "model", "a", "y", "modA", FALSE),
     Overridden(Row(5, N, -1, "fr", "error", "b", "x", "modA", FALSE), "modB"),
     Row(6, N, 0, "fr", "help", "a", "y", "modA", FALSE),
     Overridden(Row(7, M, 1, "fr", "help", "a", "x", "modA", FALSE), "modB"),
     Row(8, N, -1, "fr", "field", "a", "x", "modB", FALSE),
     Row(9, N, -1, "fr", "field", "b", "y", "modA", FALSE)}

ExportStores ==
    {{}, {r \in ExportRows : r.id \in {1, 2, 8}},
     {r \in ExportRows : r.id \in {1, 2, 3, 4}},
     {r \in ExportRows : r.id \in {1, 3, 6}},
     {r \in ExportRows : r.id \in {1, 2, 5}},
     {r \in ExportRows : r.id \in {2, 7, 8}},
     {r \in ExportRows : r.id \in {1, 9}}}

ExportEntries ==
    {Entry("field", <<"">>, "a", "x", FALSE, FALSE),
     Entry("field", <<"">>, "b", "y", FALSE, FALSE),
     Entry("model", <<"fs1">>, "a", "x", TRUE, FALSE),
     Entry("model", <<"fs2">>, "a", "y", FALSE, FALSE),
     Entry("help", <<"2">>, "a", "x", FALSE, FALSE),
     Entry("field", <<"modB", "">>, "a", "y", TRUE, FALSE),
     Entry("error", <<"">>, "b", "x", FALSE, FALSE)}

ExportCatalogs == UNION {[1..n -> ExportEntries] : n \in 0..MaxCatalog}

ExportModules == {"modA", "modB"}

InitExport ==
    /\ store \in ExportStores
    /\ nextId = 10
    /\ cache = EmptyCache
    /\ langCache = NoLanguages
    /\ hist = <<>>
    /\ txn = Idle
    /\ pend = Idle
    /\ imp \in ExportCatalogs

Export(module) ==
    /\ Len(hist) < MaxExportOps
    /\ \E o \in translation_export(store, "fr", module) :
          hist' = Append(hist, Op("export", FALSE, module, o, o.ok))
    /\ UNCHANGED <<store, nextId, cache, langCache, txn, pend, imp>>

NextExport ==
    \/ \E record \in RecordLimits : Import(record)
    \/ \E module \in ExportModules : Export(module)

SpecExport == InitExport /\ [][NextExport]_vars

\* the rows of (fr, module) that another module overrides
Superseded(st, module) ==
    {r \in st : /\ r.lang = "fr" /\ r.module = module
                /\ r.overriding_module \notin {Null, "", module}}

\* C17: an export of (lang, module) fails with an error that names a row and
\* its overriding module, and returns no content, whenever a row of
\* (lang, module) has an overriding module other than the exported one, also
\* a row that lacks an id mapping; so no returned export has an entry of an
\* overridden row.
C17_OverriddenRowFailsExport ==
    (hist # <<>> /\ Last(hist).op = "export") =>
        LET module == Last(hist).args
            res == Last(hist).res
        IN  IF Superseded(store, module) # {}
            THEN /\ ~Last(hist).ok
                 /\ res.none /\ res.content = <<>>
                 /\ \E r \in Superseded(store, module) :
                       /\ res.error.name = r.name
                       /\ res.error.overriding_module = r.overriding_module
            ELSE Last(hist).ok

\* C17 witness: an export has failed on an overridden row that has no id
\* mapping
C17_Witness ==
    /\ hist # <<>> /\ Last(hist).op = "export" /\ ~Last(hist).ok
    /\ Last(hist).args = "modA"
    /\ Superseded(store, "modA") # {}
    /\ \A r \in Superseded(store, "modA") :
          r.res_id >= 0 /\ ~InDbId2FsId("modA", r.name[1])

\* entries in non-decreasing order of (context, source)
InOrder(content) ==
    \A i, j \in DOMAIN content :
        i < j => ~TupleLess(SortKey(content[j]), SortKey(content[i]))

\* C18: what an export returns for a store and a (lang, module) does not
\* depend on the order the store returns the rows in, and its entries are in
\* non-decreasing order of (context, source).
C18_ExportOrderIndependent ==
    (hist # <<>> /\ Last(hist).op = "export" /\ Last(hist).ok) =>
        /\ InOrder(Last(hist).res.content)
        /\ \A o \in translation_export(store, "fr", Last(hist).args) :
              o.ok /\ o.content = Last(hist).res.content

\* the id mappings of module for the resource of row r
MappingsOf(module, r) ==
    {md \in ModelDataRows :
        /\ md.module = module
        /\ md.db_id = r.res_id
        /\ (md.model = r.name[1] \/ r.name[1] \in extra_model_data(md))}

\* the entry of row r under the portable reference ref
EntryOf(r, ref) ==
    [msgctxt |-> <<r.type, r.name, <<ref>>>>,
     msgid |-> IF r.src = Null THEN "" ELSE r.src,
     msgstr |-> IF r.value = Null THEN "" ELSE r.value,
     fuzzy |-> r.fuzzy, obsolete |-> FALSE]

\* C20: every entry an export emits for a row with res_id >= 0 carries a
\* reference that the id mappings of the exported module map back to that
\* res_id; a row with res_id >= 0 without such a mapping is not emitted; a
\* row with res_id = -1 is emitted with an empty reference.
C20_ExportedReferencesMapBack ==
    (hist # <<>> /\ Last(hist).op = "export" /\ Last(hist).ok) =>
        LET module == Last(hist).args
            content == Last(hist).res.content
            rows == {r \in store : r.lang = "fr" /\ r.module = module}
        IN  /\ \A i \in DOMAIN content :
                  \E r \in rows :
                      \/ r.res_id < 0 /\ content[i] = EntryOf(r, "")
                      \/ /\ r.res_id >= 0
                         /\ \E md \in MappingsOf(module, r) :
                               content[i] = EntryOf(r, md.fs_id)
            /\ Len(content) =
                  Cardinality({r \in rows : r.res_id < 0
                                  \/ MappingsOf(module, r) # {}})
            /\ \A r \in rows :
                  r.res_id < 0 => \E i \in DOMAIN content :
                                     content[i] = EntryOf(r, "")

\* the catalog has no obsolete and no override entry
Plain(catalog) ==
    \A i \in DOMAIN catalog :
        ~catalog[i].obsolete /\ Len(catalog[i].msgctxt[3]) = 1

\* the last two operations were a successful import of a plain catalog and
\* then an export of the imported (lang, module)
ImportedThenExported ==
    /\ Len(hist) = 2
    /\ hist[1].op = "import" /\ hist[1].ok /\ Plain(hist[1].args)
    /\ hist[2].op = "export" /\ hist[2].args = "modA"

\* C19 as stated: for a catalog without obsolete or override entries, an
\* import for (lang, module) followed at once by an export of the same
\* (lang, module) yields exactly the entries of the catalog, in (context,
\* source) order.
C19_ImportExportRoundTrip ==
    ImportedThenExported =>
        (hist[2].ok /\ hist[2].res.content = sort(hist[1].args))

\* the conditions under which the rows after an import are the entries of
\* the catalog: the catalog is not empty; every reference is empty or an
\* fs_id the module maps; no row is matched by two entries; and a row that
\* an entry matches has the entry's source, no noupdate mapping and no
\* other module overriding it
Faithful(catalog, before) ==
    /\ catalog # <<>>
    /\ \A i \in DOMAIN catalog :
          LET p == from_poentry(catalog[i])
          IN  \/ p.res_id = <<"">>
              \/ fs_id2prop("modA", p.translation.name[1], p.res_id[1]) # {}
    /\ \A i \in DOMAIN catalog :
          \A r \in before :
              (r.lang = "fr" /\ r.module = "modA"
               /\ Addresses("modA", catalog, i, r))
                  => /\ r.src = catalog[i].msgid
                     /\ ~Protected("modA", catalog, i)
                     /\ Superseded({r}, "modA") = {}
                     /\ \A j \in DOMAIN catalog :
                           Addresses("modA", catalog, j, r) => j = i

\* C19 amended: for a catalog without obsolete or override entries that
\* meets the conditions of Faithful, an import for (lang, module) followed
\* at once by an export of the same (lang, module) yields exactly the
\* entries of the catalog, in (context, source) order.
C19_FaithfulRoundTrip ==
    (ImportedThenExported /\ Faithful(hist[1].args, hist[1].res.before)) =>
        (hist[2].ok /\ hist[2].res.content = sort(hist[1].args))

\* C19 witness: an import that rewrote a row, created a row and deleted a
\* row, then an export that returned the two entries of the catalog in
\* another order than the catalog's
C19_Witness ==
    /\ ImportedThenExported
    /\ Faithful(hist[1].args, hist[1].res.before)
    /\ Len(hist[1].args) = 2
    /\ hist[2].ok
    /\ hist[2].res.content # hist[1].args
    /\ \E r \in hist[1].res.before :
          r.module = "modA" /\ r.id \notin {x.id : x \in store}
    /\ \E r \in hist[1].res.before :
          r.module = "modA" /\ r.id \in {x.id : x \in store}
    /\ \E x \in store : x.id \notin {r.id : r \in hist[1].res.before}

----------------------------------------------------------------------------
(* TranslationSet: the scan of one report (set_report) or of the views of   *)
(* one model (set_view).  strings is the set of the texts extracted from    *)
(* the live definition; the loop takes them in the order of a dict or a     *)
(* set, and the rows it compares them with in the order of a dict.  Every   *)
(* change is a direct SQL statement.                                        *)

\* SequenceMatcher(lambda x: x == ' ', a, b).ratio(), in percent, for the
\* texts of the model: 2 * matches / (len(a) + len(b))
ScanTexts == {"abc", "abd", "abe", "xyz"}

ratio(a, b) ==
    IF a = b THEN 100
    ELSE IF a \in {"abc", "abd", "abe"} /\ b \in {"abc", "abd", "abe"}
    THEN 66
    ELSE 0

\* a threshold no text of the model passes
IsClose_never(a, b) == FALSE

\* seqmatch.ratio() > 0.6
IsClose(a, b) == ratio(a, b) > 60

\* the rows the scan works on: lang = 'en', the kind, the name and the
\* module of the definition
ScanRows(st, ttype, name, module) ==
    {r \in st : /\ r.lang = "en" /\ r.type = ttype
                /\ r.name = name /\ r.module = module}

\* the insert of the new reference row
ScanInsert(id, ttype, name, module, string) ==
    [id |-> id, name |-> name, res_id |-> -1, lang |-> "en", type |-> ttype,
     src |-> string, src_md5 |-> get_src_md5(string), value |-> "",
     module |-> module, fuzzy |-> FALSE, overriding_module |-> Null]

\* the update of a close row: set_report addresses the rows by name, kind,
\* source and module, set_view the one row by its id
ScanUpdate(st, ttype, name, module, string, string_trans, id) ==
    {IF \/ (ttype = "view" /\ r.id = id)
        \/ (/\ ttype = "report" /\ r.name = name /\ r.type = ttype
            /\ r.src = string_trans /\ r.module = module)
     THEN [r EXCEPT !.src = string, !.src_md5 = get_src_md5(string),
                    !.fuzzy = TRUE]
     ELSE r : r \in st}

\* one text of the definition, in a scan that leaves a consumed source in
\* the dict of the sources
ScanString_keep(S, ttype, name, module, strings, string) ==
    IF ~S.ok THEN {S}
    ELSE IF string \in DOMAIN S.trans
    THEN {S}
    ELSE LET close == {k \in DOMAIN S.trans :
                          k \notin strings /\ IsClose(string, k)}
             inserted == S.store
                 \cup {ScanInsert(S.nextId, ttype, name, module, string)}
         IN  IF close # {}
             THEN {LET new == ScanUpdate(S.store, ttype, name, module, string,
                                         k, S.trans[k])
                   IN  IF translation_md5_uniq(new)
                       THEN [store |-> new, nextId |-> S.nextId,
                             trans |-> S.trans, ok |-> TRUE]
                       ELSE [S EXCEPT !.ok = FALSE] : k \in close}
             ELSE {IF translation_md5_uniq(inserted)
                   THEN [store |-> inserted, nextId |-> S.nextId + 1,
                         trans |-> S.trans, ok |-> TRUE]
                   ELSE [S EXCEPT !.ok = FALSE]}

\* lines 1119-1154 and 1215-1248: one text of the definition.  S is
\* [store, nextId, trans, ok] where trans, the dict trans_reports or
\* trans_views, maps the sources not yet consumed to the id of their row
ScanString(S, ttype, name, module, strings, string) ==
    IF ~S.ok THEN {S}
    ELSE IF string \in DOMAIN S.trans
    THEN {[S EXCEPT !.trans = [k \in DOMAIN S.trans \ {string} |-> S.trans[k]]]}
    ELSE LET close == {k \in DOMAIN S.trans :
                          k \notin strings /\ IsClose(string, k)}
             inserted == S.store
                 \cup {ScanInsert(S.nextId, ttype, name, module, string)}
         IN  IF close # {}
             THEN {LET new == ScanUpdate(S.store, ttype, name, module, string,
                                         k, S.trans[k])
                   IN  IF translation_md5_uniq(new)
                       THEN [store |-> new, nextId |-> S.nextId,
                             trans |-> [j \in DOMAIN S.trans \ {k} |->
                                           S.trans[j]],
                             ok |-> TRUE]
                       ELSE [S EXCEPT !.ok = FALSE] : k \in close}
             ELSE {IF translation_md5_uniq(inserted)
                   THEN [store |-> inserted, nextId |-> S.nextId + 1,
                         trans |-> S.trans, ok |-> TRUE]
                   ELSE [S EXCEPT !.ok = FALSE]}

RECURSIVE ScanLoop(_, _, _, _, _, _)
ScanLoop(Ss, ttype, name, module, strings, order) ==
    IF order = <<>> THEN Ss
    ELSE ScanLoop(UNION {ScanString(S, ttype, name, module, strings, order[1]) :
                            S \in Ss},
                  ttype, name, module, strings, Tail(order))

\* a scan that deletes nothing at its end
ScanDelete_none(st, ttype, name, module, strings) == st

\* lines 1155-1160 and 1249-1254: the rows of the name, kind and module
\* whose source is not a current text are deleted, in every language
ScanDelete(st, ttype, name, module, strings) ==
    {r \in st : ~(/\ r.name = name /\ r.type = ttype /\ r.module = module
                  /\ r.src # Null /\ r.src \notin strings)}

\* set_report for one report and set_view for the views of one model:
\* every outcome [store, nextId, ok].  Without a text the scan changes
\* nothing; an error of the store leaves the rows as they were
Scan(st, nid, ttype, name, module, strings) ==
    LET rows == ScanRows(st, ttype, name, module)
        srcs == {r.src : r \in rows}
        dicts == {t \in [srcs -> {r.id : r \in rows}] :
                     \A k \in srcs : \E r \in rows : r.src = k /\ r.id = t[k]}
        S0(t) == [store |-> st, nextId |-> nid, trans |-> t, ok |-> TRUE]
        ends == UNION {ScanLoop({S0(t)}, ttype, name, module, strings, order) :
                          t \in dicts, order \in Orders(strings)}
    IN  IF strings = {} THEN {[store |-> st, nextId |-> nid, ok |-> TRUE]}
        ELSE {IF S.ok
              THEN [store |-> ScanDelete(S.store, ttype, name, module, strings),
                    nextId |-> S.nextId, ok |-> TRUE]
              ELSE [store |-> st, nextId |-> nid, ok |-> FALSE] : S \in ends}

set_report(st, nid, report_name, module, strings) ==
    Scan(st, nid, "report", report_name, module, strings)

set_view(st, nid, model, module, strings) ==
    Scan(st, nid, "view", model, module, strings)

----------------------------------------------------------------------------
(* The scan specification: scans of the report 'r' and of the views of the  *)
(* model 'r' of module modA, each with a set of current texts.              *)

MaxScans == 1       \* scans per behaviour
MaxStrings == 2     \* current texts per definition

R == <<"r">>

ScanSeed ==
    {Row(1, R, -1, "en", "report", "abc", "", "modA", FALSE),
     Row(2, R, -1, "fr", "report", "abc", "x", "modA", FALSE),
     Row(3, R, -1, "en", "view", "abd", "", "modA", FALSE),
     Row(4, R, -1, "fr", "view", "abd", "x", "modA", FALSE),
     Row(5, R, -1, "en", "report", "xyz", "", "modA", FALSE),
     Row(6, R, -1, "fr", "report", "abd", "y", "modA", FALSE),
     Row(7, R, -1, "en", "view", "abe", "", "modA", FALSE),
     Row(8, R, -1, "en", "view", "xyz", "", "modA", FALSE)}

ScanStores ==
    {{}, {r \in ScanSeed : r.id \in {1, 2, 5}},
     {r \in ScanSeed : r.id \in {3, 4, 7, 8}},
     {r \in ScanSeed : r.id \in {1, 2, 6}},
     {r \in ScanSeed : r.id \in 1..5}}

StringSets == {S \in SUBSET ScanTexts : Cardinality(S) <= MaxStrings}

InitScan ==
    /\ store \in ScanStores
    /\ nextId = 9
    /\ cache = EmptyCache
    /\ langCache = NoLanguages
    /\ hist = <<>>
    /\ txn = Idle
    /\ pend = Idle
    /\ imp = Null

SetReport(strings) ==
    /\ Len(hist) < MaxScans
    /\ \E o \in set_report(store, nextId, R, "modA", strings) :
          /\ store' = o.store
          /\ nextId' = o.nextId
          /\ hist' = Append(hist, Op("set_report", FALSE, strings,
                                     [before |-> store, after |-> o.store,
                                      kind |-> "report"], o.ok))
    /\ UNCHANGED <<cache, langCache, txn, pend, imp>>

SetView(strings) ==
    /\ Len(hist) < MaxScans
    /\ \E o \in set_view(store, nextId, R, "modA", strings) :
          /\ store' = o.store
          /\ nextId' = o.nextId
          /\ hist' = Append(hist, Op("set_view", FALSE, strings,
                                     [before |-> store, after |-> o.store,
                                      kind |-> "view"], o.ok))
    /\ UNCHANGED <<cache, langCache, txn, pend, imp>>

NextScan ==
    \/ \E strings \in StringSets : SetReport(strings)
    \/ \E strings \in StringSets : SetView(strings)

SpecScan == InitScan /\ [][NextScan]_vars

\* the last operation was a scan
Scanned == hist # <<>> /\ Last(hist).op \in {"set_report", "set_view"}

\* the reference rows of the scanned definition in st
Ref(st) == ScanRows(st, Last(hist).res.kind, R, "modA")

\* the current texts that are the source of no reference row before the scan
NewTexts == Last(hist).args \ {r.src : r \in Ref(Last(hist).res.before)}

\* the reference rows before the scan whose source is not a current text
Stale == {r \in Ref(Last(hist).res.before) : r.src \notin Last(hist).args}

Candidates(text) ==
    {r \in Stale : ratio(text, r.src) > 60 /\ ratio(text, r.src) < 100}

\* the candidates of text that the scan has given text as source, made
\* fuzzy and left their value
Renamed(text) ==
    {r \in Candidates(text) :
        \E x \in store : /\ x.id = r.id /\ x.src = text
                         /\ x.fuzzy /\ x.value = r.value}

\* the reference rows the scan has inserted for text
Inserted(text) ==
    {x \in Ref(store) :
        x.src = text /\ x.id \notin {r.id : r \in Last(hist).res.before}}

----------------------------------------------------------------------------
(* TranslationClean: the rows whose definition is gone are deleted.  The   *)
(* pool of definitions the predicates consult is fixed below: one model    *)
(* "m", one wizard "w", one report "r".                                    *)

\* Model._fields of the models of the pool; selection is the set of the
\* labels of a list selection, "method" for a selection given by a method
\* name, Null for a field without selection
NoSelection == {Null}
MethodSelection == {"method"}

PoolFields ==
    [m |-> [f |-> [translate |-> TRUE, help |-> "h", selection |-> NoSelection,
                   translate_selection |-> TRUE],
            g |-> [translate |-> FALSE, help |-> "",
                   selection |-> {"A", "B"}, translate_selection |-> TRUE],
            k |-> [translate |-> FALSE, help |-> "",
                   selection |-> MethodSelection,
                   translate_selection |-> TRUE],
            u |-> [translate |-> FALSE, help |-> "",
                   selection |-> {"A"}, translate_selection |-> FALSE]]]

\* Wizard.states and the buttons of each state; Null for a state that is not
\* a view
PoolWizards == [w |-> [s |-> {"b"}, t |-> {Null}]]

PoolReports == {<<"r">>}

PoolModelErrors == [m |-> {"oops"}]
PoolWizardErrors == [w |-> {"werr"}]

\* the names _clean_error always keeps
BuiltinErrors ==
    {"delete_xml_record", "xml_record_desc", "write_xml_record",
     "relation_not_found", "too_many_relations_found", "xml_id_syntax_error",
     "reference_syntax_error", "domain_validation_record",
     "required_validation_record", "size_validation_record",
     "digits_validation_record", "selection_validation_record",
     "time_format_validation_record", "access_error", "read_error",
     "write_error", "required_field", "foreign_model_missing",
     "foreign_model_exist", "search_function_missing",
     "selection_value_notfound", "recursion_error"}

\* field_name not in ('name'): ('name') is a string, the test is a substring
\* test
NameSubstrings ==
    {"", "n", "a", "m", "e", "na", "am", "me", "nam", "ame", "name"}

\* pool.get(model_name) succeeds
InPool(model_name) == model_name \in DOMAIN PoolFields

\* model_name, field_name = translation.name.split(',', 1) succeeds and the
\* model declares the field; a field name that holds a comma is no field
HasField(name) ==
    /\ Len(name) >= 2
    /\ InPool(name[1])
    /\ Len(name) = 2
    /\ name[2] \in DOMAIN PoolFields[name[1]]

FieldOf(name) == PoolFields[name[1]][name[2]]

\* the _clean_<kind> predicates: TRUE when the row is to be deleted
clean_field(t) == ~HasField(t.name)

clean_model(t) ==
    IF Len(t.name) < 2 \/ ~InPool(t.name[1]) THEN TRUE
    ELSE IF t.res_id >= 0
         THEN ~HasField(t.name) \/ ~FieldOf(t.name).translate
         ELSE ~(Len(t.name) = 2 /\ t.name[2] \in NameSubstrings)

clean_report(t) == t.name \notin PoolReports

clean_selection(t) ==
    IF ~HasField(t.name) THEN TRUE
    ELSE LET field == FieldOf(t.name)
         IN  \/ field.selection = NoSelection
             \/ ~field.translate_selection
             \/ /\ field.selection # MethodSelection
                /\ t.src \notin field.selection

clean_view(t) == ~(Len(t.name) = 1 /\ InPool(t.name[1]))

clean_wizard_button(t) ==
    IF Len(t.name) < 3 \/ t.name[1] \notin DOMAIN PoolWizards THEN TRUE
    ELSE LET states == PoolWizards[t.name[1]]
         IN  IF t.name[2] \notin DOMAIN states \/ states[t.name[2]] = {Null}
             THEN TRUE
             ELSE ~(Len(t.name) = 3 /\ t.name[3] \in states[t.name[2]])

clean_help(t) ==
    IF ~HasField(t.name) THEN TRUE ELSE FieldOf(t.name).help = ""

clean_error(t) ==
    IF Len(t.name) = 1 /\ t.name[1] \in BuiltinErrors THEN FALSE
    ELSE IF Len(t.name) = 1 /\ InPool(t.name[1])
         THEN t.src \notin PoolModelErrors[t.name[1]]
         ELSE IF Len(t.name) = 1 /\ t.name[1] \in DOMAIN PoolWizardErrors
              THEN t.src \notin PoolWizardErrors[t.name[1]]
              ELSE TRUE

\* getattr(self, '_clean_%s' % translation.type)(translation)
clean_kind(t) ==
    CASE t.type = "field" -> clean_field(t)
      [] t.type = "model" -> clean_model(t)
      [] t.type = "report" -> clean_report(t)
      [] t.type = "selection" -> clean_selection(t)
      [] t.type = "view" -> clean_view(t)
      [] t.type = "wizard_button" -> clean_wizard_button(t)
      [] t.type = "help" -> clean_help(t)
      [] t.type = "error" -> clean_error(t)

\* the kinds of which one row per key is kept
SingularKinds_none == {}
SingularKinds == {"field", "model", "wizard_button", "help"}

CleanKey(t) == <<t.module, t.lang, t.type, t.name, t.res_id>>

\* the loop over the rows, in the order the search gave them: the ids queued
\* for deletion and the keys seen
RECURSIVE CleanLoop(_, _, _)
CleanLoop(translations, to_delete, keys) ==
    IF translations = <<>> THEN to_delete
    ELSE LET t == Head(translations)
         IN  IF clean_kind(t)
             THEN CleanLoop(Tail(translations), to_delete \cup {t.id}, keys)
             ELSE IF t.type \in SingularKinds
                  THEN IF CleanKey(t) \in keys
                       THEN CleanLoop(Tail(translations),
                                      to_delete \cup {t.id}, keys)
                       ELSE CleanLoop(Tail(translations), to_delete,
                                      keys \cup {CleanKey(t)})
                  ELSE CleanLoop(Tail(translations), to_delete, keys)

\* the rows of ir.model.data the clean consults
CleanModelData ==
    {[module |-> "modA", model |-> "ir.translation", fs_id |-> "t4",
      db_id |-> 4, noupdate |-> FALSE],
     [module |-> "modA", model |-> "ir.translation", fs_id |-> "t5",
      db_id |-> 5, noupdate |-> FALSE],
     [module |-> "modA", model |-> "m", fs_id |-> "fs3", db_id |-> 3,
      noupdate |-> FALSE]}

\* ModelData.search([('db_id', 'in', to_delete), ('model', '=',
\* 'ir.translation')]) and the removal of its ids from to_delete
SkipModelData_none(to_delete) == to_delete
SkipModelData(to_delete) ==
    to_delete \ {mdata.db_id : mdata \in
                    {d \in CleanModelData : /\ d.db_id \in to_delete
                                            /\ d.model = "ir.translation"}}

\* transition_clean, the rows taken in the given order
transition_clean(c, st, translations) ==
    delete(c, st, SkipModelData(CleanLoop(translations, {}, {})))

MaxCleans == 2

W == <<"w", "s", "b">>

CleanSeed ==
    {Row(1, N, -1, "en", "field", "F", "", "modA", FALSE),
     Row(2, N, -1, "en", "field", "F2", "", "modA", FALSE),
     Row(3, <<"m", "zz">>, -1, "en", "field", "Z", "", "modA", FALSE),
     Row(4, N, -1, "en", "field", "F3", "", "modA", FALSE),
     Row(5, <<"m", "g">>, -1, "en", "help", "H", "", "modA", FALSE),
     Row(6, W, -1, "en", "wizard_button", "B1", "", "modA", FALSE),
     Row(7, W, -1, "en", "wizard_button", "B2", "", "modA", FALSE),
     Row(8, <<"m", "na">>, -1, "en", "model", "M", "", "modA", FALSE),
     Row(9, R, -1, "en", "report", "abc", "", "modA", FALSE),
     Row(10, R, -1, "en", "report", "abd", "", "modA", FALSE),
     Row(11, <<"m", "g">>, -1, "en", "selection", "A", "", "modA", FALSE),
     Row(12, <<"m", "g">>, -1, "en", "selection", "C", "", "modA", FALSE),
     Row(13, <<"m">>, -1, "en", "error", "oops", "", "modA", FALSE),
     Row(14, <<"q">>, -1, "en", "error", "oops", "", "modA", FALSE),
     Row(15, <<"m">>, -1, "en", "view", "V", "", "modA", FALSE),
     Row(16, N, 1, "fr", "model", "a", "x", "modA", FALSE),
     Row(17, <<"m", "g">>, 1, "fr", "model", "a", "x", "modA", FALSE),
     Row(18, N, -1, "fr", "help", "h", "x", "modA", FALSE),
     Row(19, N, -1, "fr", "help", "h2", "y", "modA", FALSE)}

CleanStores ==
    {{r \in CleanSeed : r.id \in 1..5},
     {r \in CleanSeed : r.id \in 6..10},
     {r \in CleanSeed : r.id \in 11..15},
     {r \in CleanSeed : r.id \in 16..19},
     {r \in CleanSeed : r.id \in {1, 2, 4, 18, 19}}}

InitClean ==
    /\ store \in CleanStores
    /\ nextId = 20
    /\ cache = EmptyCache
    /\ langCache = NoLanguages
    /\ hist = <<>>
    /\ txn = Idle
    /\ pend = Idle
    /\ imp = Null

\* the wizard's clean transition; Translation.search([]) gives the rows in an
\* order the code does not fix
Clean ==
    /\ Len(hist) < MaxCleans
    /\ \E translations \in Orders(store) :
          LET o == transition_clean(cache, store, translations)
          IN  /\ store' = o.store
              /\ cache' = o.cache
              /\ hist' = Append(hist,
                            Op("clean", FALSE,
                               [i \in DOMAIN translations |->
                                   translations[i].id],
                               [before |-> store, after |-> o.store], o.ok))
    /\ UNCHANGED <<nextId, langCache, txn, pend, imp>>

NextClean == Clean

SpecClean == InitClean /\ [][NextClean]_vars

Cleaned == hist # <<>> /\ Last(hist).op = "clean"

\* the rows that pass the predicate of their kind
StillValid(r) == ~clean_kind(r)

\* the rows ir.model.data tracks
Tracked(r) ==
    \E d \in CleanModelData : d.model = "ir.translation" /\ d.db_id = r.id

\* the place of a row in the order the clean visited the rows in
Visit(order, r) == CHOOSE i \in DOMAIN order : order[i] = r.id

\* the valid rows of a singular kind visited before r under the key of r
EarlierTwins(r) ==
    {x \in Last(hist).res.before :
        /\ x.type \in {"field", "model", "wizard_button", "help"}
        /\ StillValid(x)
        /\ CleanKey(x) = CleanKey(r)
        /\ Visit(Last(hist).args, x) < Visit(Last(hist).args, r)}

\* C23: after a clean, two remaining rows of kind field, model,
\* wizard_button or help share (module, lang, kind, name, res_id) only when
\* one of them is tracked by ir.model.data; of the valid rows of one key the
\* first visited is kept and every later one that is not tracked is deleted.
C23_SingularKindsDeduplicated ==
    Cleaned =>
        /\ \A r1, r2 \in store :
              (/\ r1.id # r2.id
               /\ r1.type \in {"field", "model", "wizard_button", "help"}
               /\ CleanKey(r1) = CleanKey(r2))
                  => (Tracked(r1) \/ Tracked(r2))
        /\ \A r \in Last(hist).res.before :
              (r.type \in {"field", "model", "wizard_button", "help"}
               /\ StillValid(r))
                  => IF EarlierTwins(r) = {} THEN r \in store
                     ELSE Tracked(r) \/ r \notin store

\* C23 witness: a clean met three valid rows of one key and kept the first
\* one only
C23_Witness ==
    /\ Cleaned
    /\ \E r1, r2, r3 \in Last(hist).res.before :
          /\ StillValid(r1) /\ r2 # r3
          /\ r1 \in EarlierTwins(r2) /\ r1 \in EarlierTwins(r3)
          /\ EarlierTwins(r1) = {}
          /\ r1 \in store /\ r2 \notin store /\ r3 \in store /\ Tracked(r3)

\* C24: a clean deletes exactly the rows that ir.model.data does not track
\* and that either fail the predicate of their kind or come after a valid
\* row of the same key of kind field, model, wizard_button or help; every
\* other row is left as it was.
C24_CleanDeletesExactly ==
    Cleaned =>
        store = {r \in Last(hist).res.before :
                    Tracked(r) \/ (StillValid(r) /\ EarlierTwins(r) = {})}

\* C24 witness: a clean has deleted an invalid row and a later twin, and has
\* kept a tracked invalid row and a tracked later twin
C24_Witness ==
    /\ Cleaned
    /\ \E r1, r2, r3, r4 \in Last(hist).res.before :
          /\ ~StillValid(r1) /\ ~Tracked(r1) /\ r1 \notin store
          /\ StillValid(r2) /\ EarlierTwins(r2) # {} /\ r2 \notin store
          /\ ~StillValid(r3) /\ Tracked(r3) /\ r3 \in store
          /\ StillValid(r4) /\ EarlierTwins(r4) # {} /\ Tracked(r4)
          /\ r4 \in store

----------------------------------------------------------------------------
(* The Update wizard alone, run for a target language and run again, on    *)
(* stores that hold the reference rows and some rows of the target         *)
(* languages.                                                              *)

G == <<"m", "g">>

SyncReference ==
    {Row(1, N, -1, "en", "field", "b", "", "modA", FALSE),
     Row(2, <<"m">>, -1, "en", "error", "c", "y", "modA", FALSE),
     Row(3, N, -1, "en", "help", "a", "", "modA", FALSE),
     Row(4, G, -1, "en", "selection", "a", "", "modA", FALSE)}

SyncTargets ==
    {Row(5, N, -1, "fr", "field", "a", "x", "modA", FALSE),
     Row(6, N, -1, "fr", "help", "a", "y", "modA", FALSE),
     Row(7, <<"m">>, -1, "fr", "error", "c", "", "modA", TRUE),
     Row(8, N, -1, "fr_CA", "field", "a", "x", "modA", FALSE),
     Row(9, N, -1, "fr_CA", "help", "b", "y", "modA", FALSE)}

InitSync ==
    /\ store \in {SyncReference \cup T : T \in SUBSET SyncTargets}
    /\ nextId = 10
    /\ cache = EmptyCache
    /\ langCache = NoLanguages
    /\ hist = <<>>
    /\ txn = Idle
    /\ pend = Idle
    /\ imp = Null

NextSync == \E lang \in {"fr", "fr_CA"} : Update(lang)

SpecSync == InitSync /\ [][NextSync]_vars

Updated == hist # <<>> /\ Last(hist).op = "update" /\ Last(hist).ok

\* the target language of the last Update and the store it started from
UpdLang == Last(hist).args[1]
UpdBefore == Last(hist).res.before

IsEmpty(v) == v = "" \/ v = Null

\* the rows the last Update has created
UpdCreated == {r \in store : r.id \notin {b.id : b \in UpdBefore}}

\* the rows of the target language that had, before the Update, the
\* non-empty value they have after it, and end with the source of c
Siblings(c) ==
    {d \in store :
        /\ d.lang = UpdLang /\ d.src = c.src /\ ~IsEmpty(d.value)
        /\ \E b \in UpdBefore : b.id = d.id /\ b.value = d.value}

\* C25, as stated: every row an Update has created has an empty value when
\* the Update ends.
C25_CreatedRowsEndEmpty ==
    Updated => \A c \in UpdCreated : IsEmpty(c.value)

\* C25, amended: a row an Update has created ends with an empty value and
\* fuzzy false, unless a target-language row that kept a non-empty value
\* ends with the same source: then it ends with the greatest such value and
\* fuzzy true.  It never takes the value of the reference row as such.
C25_CreatedRowsEndEmptyOrBackFilled ==
    Updated =>
        \A c \in UpdCreated :
            /\ c.lang = UpdLang
            /\ IF Siblings(c) = {}
               THEN IsEmpty(c.value) /\ ~c.fuzzy
               ELSE /\ c.value = MaxValue({d.value : d \in Siblings(c)})
                    /\ c.fuzzy

\* C25 witness: an Update has created the counterpart of a reference row
\* that has a value, left it empty, and has back-filled another created row
C25_Witness ==
    /\ Updated
    /\ \E c1, c2 \in UpdCreated :
          /\ IsEmpty(c1.value)
          /\ \E e \in UpdBefore :
                /\ e.lang = "en" /\ e.name = c1.name /\ e.type = c1.type
                /\ ~IsEmpty(e.value)
          /\ ~IsEmpty(c2.value) /\ Siblings(c2) # {}

\* C26: after an Update for a target language, every reference row of a
\* source kind has a row of that language with its name, res_id, kind,
\* source and module, and every reference row of kind field, model or help
\* has one with its name, res_id, kind and module.
C26_EveryReferenceRowHasCounterpart ==
    Updated =>
        \A e \in store :
            e.lang = "en" =>
                /\ e.type \in {"report", "view", "wizard_button", "selection",
                               "error"}
                      => \E r \in store :
                            /\ r.lang = UpdLang /\ r.name = e.name
                            /\ r.res_id = e.res_id /\ r.type = e.type
                            /\ r.src = e.src /\ r.module = e.module
                /\ e.type \in {"field", "model", "help"}
                      => \E r \in store :
                            /\ r.lang = UpdLang /\ r.name = e.name
                            /\ r.res_id = e.res_id /\ r.type = e.type
                            /\ r.module = e.module

\* C26 witness: an Update has created a counterpart of a source kind and one
\* of a resource kind
C26_Witness ==
    /\ Updated
    /\ \E c1, c2 \in UpdCreated :
          c1.type = "error" /\ c2.type = "field"

\* the reference rows a row of kind field, model or help answers to
ReferenceOf(r) ==
    {e \in store : /\ e.lang = "en" /\ e.name = r.name /\ e.res_id = r.res_id
                   /\ e.module = r.module /\ e.type = r.type}

\* the row as it was before the Update, when its source was another one
Resourced(r) == {b \in UpdBefore : b.id = r.id /\ b.src # r.src}

\* the value of b repeats the value of its parent-language counterpart
ParentCopy(b) ==
    \E p \in UpdBefore :
        /\ p.lang = get_parent(UpdLang) /\ p.name = b.name
        /\ p.res_id = b.res_id /\ p.type = b.type /\ p.module = b.module
        /\ p.value = b.value

C28_NoEmptyFuzzyRow ==
    Updated =>
        \A r \in store : (r.lang = UpdLang /\ IsEmpty(r.value)) => ~r.fuzzy

\* C28 witness: a row that was fuzzy and empty before the Update is still
\* empty and no longer fuzzy, and so is a row whose source the Update has set
C28_Witness ==
    /\ Updated
    /\ \E r \in store, b \in UpdBefore :
          /\ b.id = r.id /\ b.fuzzy /\ IsEmpty(b.value) /\ IsEmpty(r.value)
          /\ ~r.fuzzy
    /\ \E c \in UpdCreated : c.type = "field" /\ IsEmpty(c.value) /\ ~c.fuzzy

\* the last two operations are Updates for one target language
UpdatedAgain ==
    /\ Len(hist) >= 2 /\ Updated
    /\ hist[Len(hist) - 1].op = "update" /\ hist[Len(hist) - 1].ok
    /\ hist[Len(hist) - 1].args = Last(hist).args

----------------------------------------------------------------------------
(* Translation.set_ids: the values of a translatable field of some records *)
(* are stored for a language.  fresh[id] is what getattr(record,           *)
(* field_name) reads in the reference language.                            *)

\* Config.get_language()
ConfigLanguage == "en"

\* the records of ir.model.field and of ir.model
IrFieldRecords == [i \in {1, 2} |-> IF i = 1 THEN [model |-> "m", name |-> "f"]
                                    ELSE [model |-> "m", name |-> "g"]]
IrModelRecords == [i \in {1} |-> [model |-> "m"]]

NoSave == [store |-> {}, nextId |-> 0, ok |-> FALSE, touched |-> FALSE,
           creates |-> <<>>]

\* translations, a dict filled from a search: of several rows under one key
\* the one the search gave last stays
LastFound(keys, Found) ==
    LET K == {k \in keys : Found[k] # {}}
    IN  {d \in [K -> UNION {Found[k] : k \in K}] :
            \A k \in K : d[k] \in Found[k]}

\* for record, value in izip(records, values), ordinary models: a found row
\* is written at once, and with it the rows of the other languages; a
\* missing row is queued for creation
RECURSIVE SetIdsLoop(_, _, _, _, _, _, _, _, _, _)
SetIdsLoop(S, k, name, ttype, lang, ids, values, fresh, translations, others) ==
    IF k > Len(ids) \/ ~S.ok THEN S
    ELSE LET id == ids[k]
             src == fresh[id]
         IN  IF id \notin DOMAIN translations
             THEN SetIdsLoop(
                      [S EXCEPT !.creates = Append(@,
                          [name |-> name, lang |-> lang, type |-> ttype,
                           res_id |-> id, value |-> values[k], src |-> src,
                           fuzzy |-> FALSE])],
                      k + 1, name, ttype, lang, ids, values, fresh,
                      translations, others)
             ELSE LET w1 == write_rows(S.store, {translations[id].id},
                                       [value |-> values[k], src |-> src,
                                        fuzzy |-> FALSE])
                      other_langs == {r.id : r \in others[id]}
                      w2 == IF w1.ok
                            THEN write_rows(w1.store, other_langs,
                                            [src |-> src, fuzzy |-> TRUE])
                            ELSE w1
                  IN  SetIdsLoop(
                          [S EXCEPT !.store = w2.store, !.ok = w2.ok,
                                    !.touched = TRUE],
                          k + 1, name, ttype, lang, ids, values, fresh,
                          translations, others)

\* the same loop for the names of ir.model and ir.model.field: the rows are
\* looked up under get_name(record), a missing row is queued under name
RECURSIVE SetIdsMetaLoop(_, _, _, _, _, _, _, _, _, _)
SetIdsMetaLoop(S, k, name, ttype, lang, ids, values, fresh, trs, get_name) ==
    IF k > Len(ids) \/ ~S.ok THEN S
    ELSE LET id == ids[k]
             src == fresh[id]
         IN  IF get_name[id] \notin DOMAIN trs
             THEN SetIdsMetaLoop(
                      [S EXCEPT !.creates = Append(@,
                          [name |-> name, lang |-> lang, type |-> ttype,
                           src |-> src, value |-> values[k],
                           fuzzy |-> FALSE])],
                      k + 1, name, ttype, lang, ids, values, fresh,
                      trs, get_name)
             ELSE LET w == write_rows(S.store,
                                      {trs[get_name[id]].id},
                                      [src |-> src, value |-> values[k],
                                       fuzzy |-> FALSE])
                  IN  SetIdsMetaLoop(
                          [S EXCEPT !.store = w.store, !.ok = w.ok,
                                    !.touched = TRUE],
                          k + 1, name, ttype, lang, ids, values, fresh,
                          trs, get_name)

\* cls.save(to_save): the queued rows are created
SetIdsSave(o, S) ==
    IF ~S.ok
    THEN {[store |-> o.store, nextId |-> o.nextId,
           cache |-> cache_clear(o.cache), ok |-> FALSE]}
    ELSE IF S.creates = <<>>
    THEN {[store |-> S.store, nextId |-> S.nextId,
           cache |-> IF S.touched THEN cache_clear(o.cache) ELSE o.cache,
           ok |-> TRUE]}
    ELSE {IF n.ok
          THEN [store |-> n.store, nextId |-> n.nextId,
                cache |-> cache_clear(o.cache), ok |-> TRUE]
          ELSE [store |-> o.store, nextId |-> o.nextId,
                cache |-> cache_clear(o.cache), ok |-> FALSE] :
             n \in create_rows(S.store, S.nextId, S.creates, Null)}

\* the branch for the names of ir.model.field and ir.model
SetIdsMeta(o, name, lang, ids, values, fresh) ==
    LET model_name == name[1]
        field_name == name[2]
        ttype == IF model_name = "ir.model.field"
                 THEN IF field_name = "field_description" THEN "field"
                      ELSE "help"
                 ELSE "model"
        get_name == [id \in {ids[k] : k \in DOMAIN ids} |->
                        IF ttype \in {"field", "help"}
                        THEN <<IrFieldRecords[id].model,
                               IrFieldRecords[id].name>>
                        ELSE <<IrModelRecords[id].model, field_name>>]
        names == {get_name[ids[k]] : k \in DOMAIN ids}
        Found == [n \in names |->
                     {r \in o.store : r.lang = lang /\ r.type = ttype
                                      /\ r.name = n}]
        S0 == [NoSave EXCEPT !.store = o.store, !.nextId = o.nextId,
                             !.ok = TRUE]
    IN  UNION {SetIdsSave(o, SetIdsMetaLoop(S0, 1, name, ttype, lang, ids,
                                            values, fresh, translations,
                                            get_name)) :
                  translations \in LastFound(names, Found)}

\* whether the rows of the other languages are looked up
PropagateFuzzy_never(lang, fz) == FALSE
PropagateFuzzy(lang, fz) == lang = ConfigLanguage /\ fz

\* the branch for an ordinary model
SetIdsModel(o, name, ttype, lang, ids, values, fresh, fz) ==
    LET idSet == {ids[k] : k \in DOMAIN ids}
        Found == [id \in idSet |->
                     {r \in o.store : /\ r.lang = lang /\ r.type = ttype
                                      /\ r.name = name /\ r.res_id = id}]
        others == [id \in idSet |->
                      IF PropagateFuzzy(lang, fz)
                      THEN {r \in o.store :
                               /\ r.lang # lang /\ r.lang # Null
                               /\ r.type = ttype /\ r.name = name
                               /\ r.res_id = id}
                      ELSE {}]
        S0 == [NoSave EXCEPT !.store = o.store, !.nextId = o.nextId,
                             !.ok = TRUE]
    IN  UNION {SetIdsSave(o, SetIdsLoop(S0, 1, name, ttype, lang, ids, values,
                                        fresh, translations, others)) :
                  translations \in LastFound(idSet, Found)}

\* set_ids for at most in_max ids
SetIdsSlice(o, name, ttype, lang, ids, values, fresh, fz) ==
    IF ~o.ok THEN {o}
    ELSE IF Len(name) # 2
    THEN {[o EXCEPT !.ok = FALSE]}
    ELSE IF name[1] \in {"ir.model.field", "ir.model"}
    THEN SetIdsMeta(o, name, lang, ids, values, fresh)
    ELSE IF ~InPool(name[1]) THEN {[o EXCEPT !.ok = FALSE]}
    ELSE SetIdsModel(o, name, ttype, lang, ids, values, fresh, fz)

RECURSIVE SetIdsSlices(_, _, _, _, _, _, _, _)
SetIdsSlices(os, name, ttype, lang, idSlices, valueSlices, fresh, fz) ==
    IF idSlices = <<>> THEN os
    ELSE SetIdsSlices(
             UNION {SetIdsSlice(o, name, ttype, lang, Head(idSlices),
                                Head(valueSlices), fresh, fz) : o \in os},
             name, ttype, lang, Tail(idSlices), Tail(valueSlices), fresh, fz)

\* set_ids(name, ttype, lang, ids, values) with fuzzy_translation = fz in
\* the context: every outcome [store, nextId, cache, ok]; an error leaves
\* the store as it was
set_ids(c, st, nid, name, ttype, lang, ids, values, fresh, fz) ==
    LET o0 == [store |-> st, nextId |-> nid, cache |-> c, ok |-> TRUE]
        os == IF Len(ids) > IN_MAX
              THEN SetIdsSlices({o0}, name, ttype, lang,
                                grouped_slice(ids, IN_MAX),
                                grouped_slice(values, IN_MAX), fresh, fz)
              ELSE SetIdsSlice(o0, name, ttype, lang, ids, values, fresh, fz)
    IN  {IF o.ok THEN o
         ELSE [store |-> st, nextId |-> nid, cache |-> o.cache, ok |-> FALSE] :
            o \in os}

MaxApplies == 2

ApplySeed ==
    {Row(1, N, 1, "en", "model", "a", "x", Null, FALSE),
     Row(2, N, 1, "fr", "model", "a", "x", Null, FALSE),
     Row(3, N, 1, "fr_CA", "model", "b", "y", Null, FALSE),
     Row(4, N, 2, "fr", "model", "a", "x", Null, FALSE),
     Row(5, N, -1, "en", "field", "a", "", "modA", FALSE),
     Row(6, N, 1, "fr", "field", "a", "x", Null, FALSE)}

ApplyStores ==
    {{}, ApplySeed,
     {r \in ApplySeed : r.id \in {2, 3, 4}},
     {r \in ApplySeed : r.id \in {1, 2, 3}},
     {r \in ApplySeed : r.id \in {1, 4, 5}}}

\* the source texts the records may hold
FreshTexts == {[i \in {1, 2} |-> t] : t \in {"a", "b"}}

\* the calls: name, ttype, lang, ids, values
ApplyCalls ==
    {<<N, "model", l, ids, <<"x", "y">>>> :
        l \in {"en", "fr"}, ids \in {<<1>>, <<1, 2>>}}
    \cup {<<<<"ir.model.field", "field_description">>, "model", "en", <<1>>,
            <<"y">>>>,
          <<<<"ir.model", "name">>, "model", "fr", <<1>>, <<"y">>>>,
          <<<<"q", "f">>, "model", "fr", <<1>>, <<"y">>>>}

InitApply ==
    /\ store \in ApplyStores
    /\ nextId = 7
    /\ cache = EmptyCache
    /\ langCache = NoLanguages
    /\ hist = <<>>
    /\ txn = Idle
    /\ pend = Idle
    /\ imp = Null

SetIds(call, fresh, fz) ==
    /\ Len(hist) < MaxApplies
    /\ \E o \in set_ids(cache, store, nextId, call[1], call[2], call[3],
                        call[4], SubSeq(call[5], 1, Len(call[4])), fresh, fz) :
          /\ store' = o.store
          /\ nextId' = o.nextId
          /\ cache' = o.cache
          /\ hist' = Append(hist, Op("set_ids", fz, call,
                                     [before |-> store, after |-> o.store,
                                      fresh |-> fresh], o.ok))
    /\ UNCHANGED <<langCache, txn, pend, imp>>

NextApply ==
    \E call \in ApplyCalls, fresh \in FreshTexts, fz \in BOOLEAN :
        SetIds(call, fresh, fz)

SpecApply == InitApply /\ [][NextApply]_vars

\* the last operation is a completed set_ids for an ordinary model in the
\* reference language with fuzzy_translation set
Propagated ==
    /\ hist # <<>> /\ Last(hist).op = "set_ids" /\ Last(hist).ok
    /\ Last(hist).fz /\ Last(hist).args[3] = ConfigLanguage
    /\ Last(hist).args[1][1] \notin {"ir.model.field", "ir.model"}

\* the rows of the other languages for the records of the call, as they
\* were before it
OtherRows ==
    {b \in Last(hist).res.before :
        /\ b.lang # Last(hist).args[3]
        /\ b.name = Last(hist).args[1] /\ b.type = Last(hist).args[2]
        /\ \E k \in DOMAIN Last(hist).args[4] : Last(hist).args[4][k] = b.res_id}

FreshOf(b) == Last(hist).res.fresh[b.res_id]

NowOf(b) == CHOOSE r \in store : r.id = b.id

HadReference(b) ==
    \E e \in Last(hist).res.before :
        /\ e.lang = Last(hist).args[3] /\ e.name = b.name /\ e.type = b.type
        /\ e.res_id = b.res_id

\* C30: after set_ids in the reference language with fuzzy_translation
\* set, a row of another language for a written record ends fuzzy with the
\* fresh source when its source differed from the fresh source, and keeps
\* its fuzzy flag when its source was the fresh source already, whether or
\* not the record had a row of the reference language before the call.
C30_FuzzyExactlyWhereSourceDiffers ==
    Propagated =>
        \A b \in OtherRows :
            /\ \E r \in store : r.id = b.id
            /\ IF b.src # FreshOf(b)
               THEN NowOf(b).fuzzy /\ NowOf(b).src = FreshOf(b)
               ELSE NowOf(b).fuzzy = b.fuzzy /\ NowOf(b).src = b.src

\* the last operation is a completed set_ids
Applied == hist # <<>> /\ Last(hist).op = "set_ids" /\ Last(hist).ok

\* the call is for the names of ir.model.field or ir.model
IsMeta(call) == call[1][1] \in {"ir.model.field", "ir.model"}

\* the name and the kind under which the rows of record id of a call are
\* read back by get_ids
RecordName(call, id) ==
    IF call[1][1] = "ir.model.field"
    THEN <<IrFieldRecords[id].model, IrFieldRecords[id].name>>
    ELSE IF call[1][1] = "ir.model"
    THEN <<IrModelRecords[id].model, call[1][2]>>
    ELSE call[1]

RecordKind(call) ==
    IF call[1][1] = "ir.model.field"
    THEN IF call[1][2] = "field_description" THEN "field" ELSE "help"
    ELSE IF call[1][1] = "ir.model" THEN "model" ELSE call[2]

\* the rows of the language of the call for its k-th record
RecordRows(st, call, k) ==
    {r \in st :
        /\ r.lang = call[3] /\ r.type = RecordKind(call)
        /\ r.name = RecordName(call, call[4][k])
        /\ IsMeta(call) \/ r.res_id = call[4][k]}

\* the last two operations are the same completed set_ids call, the records
\* holding the same texts
AppliedAgain ==
    /\ Len(hist) >= 2 /\ Applied
    /\ hist[Len(hist) - 1].op = "set_ids" /\ hist[Len(hist) - 1].ok
    /\ hist[Len(hist) - 1].args = Last(hist).args
    /\ hist[Len(hist) - 1].res.fresh = Last(hist).res.fresh

\* C31: after set_ids every record of the call has exactly one row of the
\* language, with the given value, the source the record holds and fuzzy
\* false, and the same call made again creates no further row; for ordinary
\* models and for the names of ir.model and ir.model.field.
C31_OneRowPerRecord ==
    /\ Applied =>
          \A k \in DOMAIN Last(hist).args[4] :
              /\ Cardinality(RecordRows(store, Last(hist).args, k)) = 1
              /\ \A r \in RecordRows(store, Last(hist).args, k) :
                    /\ r.value = Last(hist).args[5][k]
                    /\ r.src = Last(hist).res.fresh[Last(hist).args[4][k]]
                    /\ ~r.fuzzy
    /\ AppliedAgain =>
          {r.id : r \in store} = {r.id : r \in Last(hist).res.before}


----------------------------------------------------------------------------
(* The unique key of the rows under the operations.                         *)

\* C32: after a scan no two stored rows have the same (name, res_id, lang,
\* type, src_md5, module), and the scan did not fail on the unique
\* constraint (the only error a scan of the model can meet)
C32_NoDuplicateNoFailure ==
    /\ \A r1, r2 \in store : UniqueKey(r1) = UniqueKey(r2) => r1.id = r2.id
    /\ Scanned => Last(hist).ok


\* C33: after an Update every stored row's src_md5 is the digest of its
\* current src
C33_DigestFollowsSource ==
    \A r \in store : r.src_md5 = get_src_md5(r.src)


----------------------------------------------------------------------------
(* The size of the queries of a scan.                                       *)

\* the keys a query may carry: the store's maximum parameter count divided
\* by the number of predicate columns, as get_sources and get_ids compute
\* it for their seven columns (IN_MAX // 7)
ChunkBound(columns) == IN_MAX \div columns

\* the statements of a scan that has texts, each with the number of its
\* predicate columns and of the keys it carries: the select of the rows of
\* the definition, the update of a close row (by name, kind, source and
\* module in set_report, by id in set_view), and the final delete, whose
\* predicate ~src.in_(strings) carries every text of the definition
ScanQueries(ttype, strings) ==
    {[query |-> "select", columns |-> 4, keys |-> 1],
     [query |-> "update", columns |-> IF ttype = "report" THEN 4 ELSE 1,
      keys |-> 1],
     [query |-> "delete", columns |-> 4, keys |-> Cardinality(strings)]}

\* C34: no statement of a scan carries more keys than the chunk bound of
\* its columns, however many texts the definition has
C34_QueriesWithinChunkBound ==
    (Scanned /\ Last(hist).args # {})
        => \A q \in ScanQueries(Last(hist).res.kind, Last(hist).args) :
              q.keys <= ChunkBound(q.columns)


----------------------------------------------------------------------------
(* The rows of the singular kinds after an import into an empty slot.       *)

\* the rows of (fr, modA), the slot the imports of the model fill
Slot(st) == {r \in st : r.lang = "fr" /\ r.module = "modA"}

\* C35: after a successful import into a store without a row of (fr, modA),
\* the rows of (fr, modA) of the kinds field, model and help are one per
\* (name, res_id, kind) at most, whatever the catalog holds
C35_ImportedSingularKindsUnique ==
    (/\ hist # <<>> /\ Last(hist).op = "import" /\ Last(hist).ok
     /\ Slot(Last(hist).res.before) = {}) =>
        \A r1, r2 \in Slot(store) :
            (/\ r1.type \in {"field", "model", "help"}
             /\ r1.type = r2.type /\ r1.name = r2.name
             /\ r1.res_id = r2.res_id) => r1.id = r2.id


----------------------------------------------------------------------------
(* The two scans side by side.                                              *)

OtherKind(ttype) == IF ttype = "report" THEN "view" ELSE "report"

\* the rows with the kinds report and view exchanged
Swap(st) ==
    {IF r.type \in {"report", "view"}
     THEN [r EXCEPT !.type = OtherKind(r.type)] ELSE r : r \in st}

\* C36: the scan of the other kind, given the same rows and the same
\* texts, can leave the rows the scan left, apart from the kind (and fails
\* where the scan failed); stated for the first scan of a behaviour, whose
\* new rows take their ids from 9
C36_ScansAgree ==
    (Scanned /\ Len(hist) = 1) =>
        \E o \in Scan(Swap(Last(hist).res.before), 9,
                      OtherKind(Last(hist).res.kind), R, "modA",
                      Last(hist).args) :
            /\ o.ok = Last(hist).ok
            /\ o.store = Swap(Last(hist).res.after)


----------------------------------------------------------------------------
(* The rows a scan keeps and the rows it rewrites.                          *)

\* C37: after a scan with current texts, every reference row whose source
\* is a current text is as it was before (not rewritten, so never the
\* target of a rename), and every current text has exactly one reference
\* row: no row was taken by two texts, which would leave one of them
\* without a row; for every order of the texts and of the rows
C37_KeptRowsUntouchedRowsTakenOnce ==
    (Scanned /\ Last(hist).ok /\ Last(hist).args # {}) =>
        /\ \A r \in Ref(Last(hist).res.before) :
              r.src \in Last(hist).args => r \in store
        /\ \A text \in Last(hist).args :
              Cardinality({x \in Ref(store) : x.src = text}) = 1
        /\ Cardinality(Ref(store)) = Cardinality(Last(hist).args)

\* C37 witness: a new text was close to a row whose source is a current
\* text too: the row is as it was and the new text was inserted
C37_Witness ==
    /\ Scanned /\ Last(hist).ok
    /\ \E r \in Ref(Last(hist).res.before), text \in NewTexts :
          /\ r.src \in Last(hist).args /\ IsClose(text, r.src)
          /\ r \in store /\ Inserted(text) # {}


----------------------------------------------------------------------------
(* A request inside a batch and the same request alone.                     *)

\* C38: a get_sources call of several requests returns for each of them,
\* and leaves in the cache for each of them, what a call of that request
\* alone can return and leave, from the same store and the same cache
C38_BatchAsSingle ==
    [][Did("get_sources") =>
          \A r \in Range(Last(hist').args) :
              \E o \in get_sources(cache, store, <<r>>) :
                  /\ o.res[r] = Last(hist').res[r]
                  /\ o.cache.src[r] = cache'.src[r]]_vars


----------------------------------------------------------------------------
(* What an Update leaves alone.                                             *)

\* x and y have the same name, res_id, kind and module (and the same source,
\* for the kinds keyed by their source)
SameColumns(x, y) ==
    /\ x.name = y.name /\ x.res_id = y.res_id /\ x.type = y.type
    /\ x.module = y.module
    /\ (x.type \in _source_types => x.src = y.src)

\* before the Update the row b of the target language, or a row of the
\* target language with the same columns, repeats the value of a row of the
\* parent language with these columns
RepeatsParent(b) ==
    \E p, t \in UpdBefore :
        /\ p.lang = get_parent(UpdLang) /\ t.lang = UpdLang
        /\ SameColumns(p, b) /\ SameColumns(t, b)
        /\ t.value = p.value

\* C39, as stated: an Update for a target language leaves the non-empty
\* value of every row of that language that existed before, deletes no row,
\* and neither creates nor changes a row of another language.
C39_UpdateKeepsValues ==
    Updated =>
        /\ \A b \in UpdBefore : \E r \in store : r.id = b.id
        /\ \A b \in UpdBefore, r \in store :
              (/\ r.id = b.id /\ b.lang = UpdLang /\ ~IsEmpty(b.value))
                  => r.value = b.value
        /\ \A r \in store : r.lang # UpdLang => r \in UpdBefore

\* C39, amended: the same, for the rows whose value does not repeat the
\* value of their counterpart in the parent language; the Update empties
\* the value of a row that does, and of the rows that share its columns.
C39_UpdateKeepsValuesUnlessParentCopy ==
    Updated =>
        /\ \A b \in UpdBefore : \E r \in store : r.id = b.id
        /\ \A b \in UpdBefore, r \in store :
              (/\ r.id = b.id /\ b.lang = UpdLang /\ ~IsEmpty(b.value)
               /\ ~RepeatsParent(b))
                  => r.value = b.value
        /\ \A r \in store : r.lang # UpdLang => r \in UpdBefore

\* C39 witness: an Update for fr_CA has refreshed the source of a row that
\* had a value, beside a row of fr with a value, and has created a row
C39_Witness ==
    /\ Updated /\ UpdLang = "fr_CA"
    /\ \E b \in UpdBefore, r \in store :
          /\ r.id = b.id /\ b.lang = UpdLang /\ ~IsEmpty(b.value)
          /\ ~RepeatsParent(b) /\ r.src # b.src /\ r.value = b.value
    /\ \E r \in store : r.lang = "fr" /\ ~IsEmpty(r.value)
    /\ UpdCreated # {}

============================================================================
